---- MODULE Spec2Model ----
(***************************************************************************)
(* Model of the maze exploration server (src/server/main.go).              *)
(*                                                                         *)
(* The state is the global `game` object (type Game), the last request     *)
(* served and its response.  Specification Spec serves requests one at a   *)
(* time (each handler runs to completion); specification SpecConc runs     *)
(* the handlers of net/http as goroutines that interleave statement by     *)
(* statement, since the source takes no lock.  Specification SpecGen runs   *)
(* NewGame and generateMaze step by step, gen holding the locals of        *)
(* generateMaze, and SpecGenTwice runs it twice on the same inputs and     *)
(* random draws, twin holding the second run.  Specification SpecClassify  *)
(* applies the colour classifier to loaded explorations.  SpecSmall is     *)
(* Spec on the 5x3 grid, and SpecPart serves the requests with the engine  *)
(* of src/unnamed/part_000.                                                *)
(***************************************************************************)
EXTENDS Integers, Sequences, FiniteSets, TLC

VARIABLES game, lastOp, resp, pc, req, loc, calls, crashed, gen, twin

vars == <<game, lastOp, resp, pc, req, loc, calls, crashed, gen, twin>>

(***************************************************************************)
(* Bounds of the model.                                                    *)
(***************************************************************************)
\* No move is served once this many positions are visited (between resets).
MaxVisited == 3

\* SpecConc: number of requests accepted over a run.
MaxCalls == 3

\* SpecGen: NewGame is called for grids of at most this many lattice cells.
MaxCells == 16

\* SpecGenLive: NewGame is called for grids of at most this many lattice cells.
MaxLiveCells == 12

(***************************************************************************)
(* Types and constants of the source.                                      *)
(***************************************************************************)
WALL == 0
PATH == 1
START == 2
GOAL == 3

\* Number of palette colours (the literal 6 of moveExploration).
PaletteSize == 6

Pos(x, y) == [X |-> x, Y |-> y]

UP == [X |-> 0, Y |-> -1]
DOWN == [X |-> 0, Y |-> 1]
LEFT == [X |-> -1, Y |-> 0]
RIGHT == [X |-> 1, Y |-> 0]

\* The order in which getValidDirections tries the directions.
Directions == <<UP, DOWN, LEFT, RIGHT>>

Add(p, d) == [X |-> p.X + d.X, Y |-> p.Y + d.Y]

\* A nil *string (ParentID, WinningExploration).
Nil == "<nil>"

\* Exploration names the clients use.
Names == {"root", "a"}

(***************************************************************************)
(* Mazes.  NewGame(5, 5, seed): generateMaze makes the four lattice cells  *)
(* PATH; the recursive backtracker started at (1,1) walks the 2x2 lattice  *)
(* as one chain, so it opens three of the four connecting cells and leaves *)
(* closed either (1,2) (first step to the right) or (2,1) (first step      *)
(* down); the loop-opening pass runs 5*5/30 = 0 times; Start is (1,1) and  *)
(* the farthest lattice cell, the Goal, is (3,3).                          *)
(***************************************************************************)
ClosedChoices == {Pos(1, 2), Pos(2, 1)}

GeneratedMaze(w, h, closed) ==
    [y \in 0..(h - 1) |->
        [x \in 0..(w - 1) |->
            IF x = 1 /\ y = 1 THEN START
            ELSE IF x = w - 2 /\ y = h - 2 THEN GOAL
            ELSE IF x % 2 = 1 /\ y % 2 = 1 /\ x < w - 1 /\ y < h - 1 THEN PATH
            ELSE IF (x + y) % 2 = 1 /\ x >= 1 /\ x < w - 1 /\ y >= 1 /\ y < h - 1
                    /\ Pos(x, y) # closed THEN PATH
            ELSE WALL]]

NewGame(closed) ==
    [Maze |-> GeneratedMaze(5, 5, closed),
     Width |-> 5,
     Height |-> 5,
     Start |-> Pos(1, 1),
     Goal |-> Pos(3, 3),
     Explorations |-> << >>,
     GlobalVisitedPositions |-> {},
     GoalFound |-> FALSE,
     WinningExploration |-> Nil,
     NextExplorationID |-> 0,
     TotalSteps |-> 0,
     MaxConcurrentExplorations |-> 0,
     ShowOnlyWinner |-> FALSE]

(***************************************************************************)
(* Explorations.                                                           *)
(***************************************************************************)
\* Does the sequence of positions contain p (the loop of NewExploration)?
InPath(path, p) == \E i \in 1..Len(path) : path[i] = p

\* Variant: the current position is appended without the membership test.
NewExploration_alwaysAppends(id, startPos, currentPos, parentID, generation, fixedColorIndex) ==
    [ID |-> id,
     StartPosition |-> startPos,
     CurrentPosition |-> currentPos,
     PathPositions |-> <<startPos, currentPos>>,
     ParentID |-> parentID,
     ChildIDs |-> << >>,
     IsActive |-> TRUE,
     IsComplete |-> FALSE,
     IsDead |-> FALSE,
     FoundGoal |-> FALSE,
     FixedColorIndex |-> fixedColorIndex,
     Generation |-> generation]

NewExploration(id, startPos, currentPos, parentID, generation, fixedColorIndex) ==
    [ID |-> id,
     StartPosition |-> startPos,
     CurrentPosition |-> currentPos,
     PathPositions |-> IF InPath(<<startPos>>, currentPos)
                       THEN <<startPos>>
                       ELSE <<startPos, currentPos>>,
     ParentID |-> parentID,
     ChildIDs |-> << >>,
     IsActive |-> TRUE,
     IsComplete |-> FALSE,
     IsDead |-> FALSE,
     FoundGoal |-> FALSE,
     FixedColorIndex |-> fixedColorIndex,
     Generation |-> generation]

\* g.Explorations[name] = e
PutExploration(g, name, e) ==
    [g EXCEPT !.Explorations =
        [n \in (DOMAIN g.Explorations) \cup {name} |->
            IF n = name THEN e ELSE g.Explorations[n]]]

(***************************************************************************)
(* Queries of the grid and of the visited set.                             *)
(***************************************************************************)
\* Variant: the cell type is never looked at.
isWalkable_ignoresWalls(g, pos) ==
    ~(pos.X < 0 \/ pos.X >= g.Width \/ pos.Y < 0 \/ pos.Y >= g.Height)

isWalkable(g, pos) ==
    IF pos.X < 0 \/ pos.X >= g.Width \/ pos.Y < 0 \/ pos.Y >= g.Height
    THEN FALSE
    ELSE g.Maze[pos.Y][pos.X] # WALL

\* Variant: the visited set is never consulted.
isCollision_never(g, pos) == FALSE

\* Variant: any visited position makes every position a collision.
isCollision_anyVisited(g, pos) == g.GlobalVisitedPositions # {}

isCollision(g, pos) == pos \in g.GlobalVisitedPositions

\* Variant: visited targets count as valid.
getValidDirections_ignoresVisited(g, pos) ==
    SelectSeq(Directions, LAMBDA d : isWalkable(g, Add(pos, d)))

\* The directions of Directions, in order, whose target can be entered.
getValidDirections(g, pos) ==
    SelectSeq(Directions,
              LAMBDA d : isWalkable(g, Add(pos, d)) /\ ~isCollision(g, Add(pos, d)))

isAtGoal(g, pos) == pos.X = g.Goal.X /\ pos.Y = g.Goal.Y

(***************************************************************************)
(* moveExploration.  Each operator maps a Game to the Game after the       *)
(* statements it models; moveExploration returns the Game and the          *)
(* MoveResponse (Success and NewStatus; Message is text for people).       *)
(***************************************************************************)
MoveResponse(success, newStatus) == [Success |-> success, NewStatus |-> newStatus]

Ret(g, success, newStatus) == [game |-> g, resp |-> MoveResponse(success, newStatus)]

\* Variant: the visited set is replaced by the one position.
MarkVisited_replaces(g, pos) ==
    [g EXCEPT !.GlobalVisitedPositions = {pos}]

\* g.GlobalVisitedPositions[pos] = true
MarkVisited(g, pos) ==
    [g EXCEPT !.GlobalVisitedPositions = @ \cup {pos}]

\* Variant: the goal branch leaves IsActive alone.
ReachGoal_staysActive(g, name) ==
    [g EXCEPT !.Explorations[name].FoundGoal = TRUE,
              !.Explorations[name].IsComplete = TRUE,
              !.GoalFound = TRUE,
              !.WinningExploration = name]

\* Variant: the goal branch does not record the winner.
ReachGoal_noWinner(g, name) ==
    [g EXCEPT !.Explorations[name].FoundGoal = TRUE,
              !.Explorations[name].IsActive = FALSE,
              !.Explorations[name].IsComplete = TRUE,
              !.GoalFound = TRUE]

\* The goal branch: the exploration's flags, GoalFound and WinningExploration.
ReachGoal(g, name) ==
    [g EXCEPT !.Explorations[name].FoundGoal = TRUE,
              !.Explorations[name].IsActive = FALSE,
              !.Explorations[name].IsComplete = TRUE,
              !.GoalFound = TRUE,
              !.WinningExploration = name]

\* Variant: the dead-end branch leaves IsComplete alone.
MarkDead_incomplete(g, name) ==
    [g EXCEPT !.Explorations[name].IsDead = TRUE,
              !.Explorations[name].IsActive = FALSE]

\* The dead-end branch.
MarkDead(g, name) ==
    [g EXCEPT !.Explorations[name].IsDead = TRUE,
              !.Explorations[name].IsActive = FALSE,
              !.Explorations[name].IsComplete = TRUE]

\* Variant: the colour index is the counter itself.
MoveNew_noWrap(g, name, nextPos) ==
    LET colorIndex == g.NextExplorationID
        g1 == [g EXCEPT !.NextExplorationID = @ + 1]
        g2 == PutExploration(g1, name,
                  NewExploration(name, nextPos, nextPos, Nil, 0, colorIndex))
        g3 == MarkVisited(g2, nextPos)
    IN  IF isAtGoal(g3, nextPos)
        THEN Ret(ReachGoal(g3, name), TRUE, "goal_reached")
        ELSE Ret(g3, TRUE, "continue")

\* Variant: the position of a new exploration is not marked visited.
MoveNew_unmarked(g, name, nextPos) ==
    LET colorIndex == g.NextExplorationID % PaletteSize
        g1 == [g EXCEPT !.NextExplorationID = @ + 1]
        g2 == PutExploration(g1, name,
                  NewExploration(name, nextPos, nextPos, Nil, 0, colorIndex))
    IN  IF isAtGoal(g2, nextPos)
        THEN Ret(ReachGoal(g2, name), TRUE, "goal_reached")
        ELSE Ret(g2, TRUE, "continue")

\* Variant: an exploration created while root exists is a child of root.
MoveNew_childOfRoot(g, name, nextPos) ==
    LET colorIndex == g.NextExplorationID % PaletteSize
        g1 == [g EXCEPT !.NextExplorationID = @ + 1]
        parentID == IF "root" \in DOMAIN g.Explorations THEN "root" ELSE Nil
        g2 == PutExploration(g1, name,
                  NewExploration(name, nextPos, nextPos, parentID, 0, colorIndex))
        g3 == MarkVisited(g2, nextPos)
    IN  IF isAtGoal(g3, nextPos)
        THEN Ret(ReachGoal(g3, name), TRUE, "goal_reached")
        ELSE Ret(g3, TRUE, "continue")

\* The branch of an unknown name: the exploration is created at nextPos.
MoveNew(g, name, nextPos) ==
    LET colorIndex == g.NextExplorationID % PaletteSize
        g1 == [g EXCEPT !.NextExplorationID = @ + 1]
        g2 == PutExploration(g1, name,
                  NewExploration(name, nextPos, nextPos, Nil, 0, colorIndex))
        g3 == MarkVisited(g2, nextPos)
    IN  IF isAtGoal(g3, nextPos)
        THEN Ret(ReachGoal(g3, name), TRUE, "goal_reached")
        ELSE Ret(g3, TRUE, "continue")

\* "the very first move to (1,1)"
IsRootFirstMove(g, name, nextPos) ==
    /\ name = "root"
    /\ nextPos.X = 1
    /\ nextPos.Y = 1
    /\ Len(g.Explorations[name].PathPositions) = 1

\* Variant: the step replaces the path by the new position.
Advance_overwritesPath(g, name, nextPos) ==
    MarkVisited([g EXCEPT !.Explorations[name].CurrentPosition = nextPos,
                          !.Explorations[name].PathPositions = <<nextPos>>],
                nextPos)

\* Variant: the step does not mark the new position visited.
Advance_unmarked(g, name, nextPos) ==
    [g EXCEPT !.Explorations[name].CurrentPosition = nextPos,
              !.Explorations[name].PathPositions = Append(@, nextPos)]

\* The exploration steps to nextPos.
Advance(g, name, nextPos) ==
    MarkVisited([g EXCEPT !.Explorations[name].CurrentPosition = nextPos,
                          !.Explorations[name].PathPositions = Append(@, nextPos)],
                nextPos)

\* The branch of a known name that is not the root's first move.
MoveKnown(g, name, nextPos) ==
    LET g1 == Advance(g, name, nextPos)
        validMoves == getValidDirections(g1, nextPos)
    IN  IF isAtGoal(g1, nextPos)
        THEN Ret(ReachGoal(g1, name), TRUE, "goal_reached")
        ELSE IF Len(validMoves) = 0
        THEN Ret(MarkDead(g1, name), TRUE, "dead_end")
        ELSE IF Len(validMoves) > 1
        THEN Ret(g1, TRUE, "junction")
        ELSE Ret(g1, TRUE, "continue")

\* Variant: the root's first move is recognised before the collision check.
moveExploration_firstMoveFirst(g, explorationName, nextPos) ==
    IF ~isWalkable(g, nextPos)
    THEN Ret(g, FALSE, "blocked")
    ELSE IF explorationName \in DOMAIN g.Explorations
            /\ IsRootFirstMove(g, explorationName, nextPos)
    THEN Ret(MarkVisited(g, nextPos), TRUE, "continue")
    ELSE IF isCollision(g, nextPos)
    THEN Ret(g, FALSE, "collision")
    ELSE IF explorationName \notin DOMAIN g.Explorations
    THEN MoveNew(g, explorationName, nextPos)
    ELSE MoveKnown(g, explorationName, nextPos)

moveExploration(g, explorationName, nextPos) ==
    IF ~isWalkable(g, nextPos)
    THEN Ret(g, FALSE, "blocked")
    ELSE IF isCollision(g, nextPos)
    THEN Ret(g, FALSE, "collision")
    ELSE IF explorationName \notin DOMAIN g.Explorations
    THEN MoveNew(g, explorationName, nextPos)
    ELSE IF IsRootFirstMove(g, explorationName, nextPos)
    THEN Ret(MarkVisited(g, nextPos), TRUE, "continue")
    ELSE MoveKnown(g, explorationName, nextPos)

\* Variant: the visited set survives the reset.
ResetGame_keepsVisited(g) ==
    [g EXCEPT !.Explorations = << >>,
              !.GoalFound = FALSE,
              !.WinningExploration = Nil,
              !.NextExplorationID = 0,
              !.TotalSteps = 0,
              !.MaxConcurrentExplorations = 0,
              !.ShowOnlyWinner = FALSE]

\* handleReset: the assignments to the fields of game.
ResetGame(g) ==
    [g EXCEPT !.Explorations = << >>,
              !.GlobalVisitedPositions = {},
              !.GoalFound = FALSE,
              !.WinningExploration = Nil,
              !.NextExplorationID = 0,
              !.TotalSteps = 0,
              !.MaxConcurrentExplorations = 0,
              !.ShowOnlyWinner = FALSE]

(***************************************************************************)
(* The read-only operations.  Like moveExploration, each returns the Game  *)
(* after the call and the response.                                        *)
(***************************************************************************)
\* The AvailableMoves of getMazeStatus: every valid direction with its target.
AvailableMoves(pos, validDirections) ==
    [i \in 1..Len(validDirections) |->
        [Direction |-> validDirections[i],
         TargetPosition |-> Add(pos, validDirections[i])]]

\* Variant: asking for the status of a position records it as visited.
getMazeStatus_marksExplored(g, pos) ==
    LET validDirections == getValidDirections(g, pos)
    IN  [game |-> MarkVisited(g, pos),
         resp |-> [IsExplored |-> pos \in g.GlobalVisitedPositions,
                   IsJunction |-> Len(validDirections) > 1,
                   AvailableDirections |-> validDirections,
                   AvailableMoves |-> AvailableMoves(pos, validDirections),
                   IsGoal |-> isAtGoal(g, pos),
                   GoalReachedByAny |-> g.GoalFound]]

getMazeStatus(g, pos) ==
    LET validDirections == getValidDirections(g, pos)
    IN  [game |-> g,
         resp |-> [IsExplored |-> pos \in g.GlobalVisitedPositions,
                   IsJunction |-> Len(validDirections) > 1,
                   AvailableDirections |-> validDirections,
                   AvailableMoves |-> AvailableMoves(pos, validDirections),
                   IsGoal |-> isAtGoal(g, pos),
                   GoalReachedByAny |-> g.GoalFound]]

\* Variant: every exploration is counted as active.
GlobalStats_countsAll(g) ==
    [TotalExplorations |-> Cardinality(DOMAIN g.Explorations),
     ActiveExplorations |-> Cardinality(DOMAIN g.Explorations),
     GoalFound |-> g.GoalFound,
     VisitedPositions |-> Cardinality(g.GlobalVisitedPositions)]

\* The GlobalStats of getExplorationTree.
GlobalStats(g) ==
    [TotalExplorations |-> Cardinality(DOMAIN g.Explorations),
     ActiveExplorations |->
        Cardinality({n \in DOMAIN g.Explorations : g.Explorations[n].IsActive}),
     GoalFound |-> g.GoalFound,
     VisitedPositions |-> Cardinality(g.GlobalVisitedPositions)]

getExplorationTree(g) ==
    [game |-> g,
     resp |-> [Explorations |-> g.Explorations, GlobalStats |-> GlobalStats(g)]]

(***************************************************************************)
(* Requests.  The positions a client names: the nine inner cells of the    *)
(* grid (every walkable cell, the closed connecting cell and the wall      *)
(* (2,2)), a border wall, and one position beyond each edge of the grid.   *)
(***************************************************************************)
Targets ==
    {Pos(x, y) : x \in 1..3, y \in 1..3}
        \cup {Pos(0, 1)}
        \cup {Pos(-1, 1), Pos(5, 1), Pos(1, -1), Pos(1, 5)}

\* The nine inner cells of the grid: the walkable cells and two walls.
InnerTargets == {Pos(x, y) : x \in 1..3, y \in 1..3}

\* The positions a client asks the status of: the start, the Goal, a wall
\* with walkable cells on several sides, a border wall and a position outside
\* the grid.
QueryTargets == {Pos(1, 1), Pos(3, 3), Pos(2, 2), Pos(0, 1), Pos(-1, 1)}

NoOp == [op |-> "none"]
NoResp == [Success |-> FALSE, NewStatus |-> "none"]

Handlers == {"h1", "h2"}

\* The locals of a handler that holds no exploration and no result.
NoLocals == [attached |-> FALSE, obj |-> Nil, colorIndex |-> 0, ret |-> NoResp]

\* No run of generateMaze is in progress.
NoRun == [pc |-> "none"]

\* No goroutine is serving a request.
Idle ==
    /\ pc = [h \in Handlers |-> "idle"]
    /\ req = [h \in Handlers |-> NoOp]
    /\ loc = [h \in Handlers |-> NoLocals]
    /\ calls = << >>
    /\ crashed = FALSE

Init ==
    /\ \E closed \in ClosedChoices : game = NewGame(closed)
    /\ lastOp = NoOp
    /\ resp = NoResp
    /\ Idle
    /\ gen = NoRun
    /\ twin = NoRun

(***************************************************************************)
(* Spec: requests are served one at a time.                                *)
(***************************************************************************)
\* POST /move, served to completion.
ServeMove(name, nextPos) ==
    LET r == moveExploration(game, name, nextPos)
    IN  /\ game' = r.game
        /\ resp' = r.resp
        /\ lastOp' = [op |-> "move", name |-> name, pos |-> nextPos]
        /\ UNCHANGED <<pc, req, loc, calls, crashed, gen, twin>>

\* A move that would be accepted is served only while fewer than MaxVisited
\* positions are visited.
Move(name, nextPos) ==
    /\ moveExploration(game, name, nextPos).resp.Success =>
            Cardinality(game.GlobalVisitedPositions) < MaxVisited
    /\ ServeMove(name, nextPos)

\* POST /reset, served to completion.
Reset ==
    /\ game' = ResetGame(game)
    /\ resp' = MoveResponse(TRUE, "reset")
    /\ lastOp' = [op |-> "reset"]
    /\ UNCHANGED <<pc, req, loc, calls, crashed, gen, twin>>

Next ==
    \/ \E name \in Names, nextPos \in Targets : Move(name, nextPos)
    \/ Reset

Spec == Init /\ [][Next]_vars

\* NewGame(5, 3, seed): two lattice cells and the cell between them, so three
\* walkable cells; Start is (1,1) and the Goal is (3,1).
NewGameSmall ==
    [NewGame(Pos(0, 0)) EXCEPT !.Maze = GeneratedMaze(5, 3, Pos(0, 0)),
                               !.Height = 3,
                               !.Goal = Pos(3, 1)]

InitSmall ==
    /\ game = NewGameSmall
    /\ lastOp = NoOp
    /\ resp = NoResp
    /\ Idle
    /\ gen = NoRun
    /\ twin = NoRun

\* SpecSmall: the requests of Spec on the 5x3 grid, where MaxVisited positions
\* are all the walkable cells there are.
SpecSmall == InitSmall /\ [][Next]_vars

(***************************************************************************)
(* SpecRead: moves to the inner cells, resets and the two read-only        *)
(* requests, served one at a time.                                         *)
(***************************************************************************)
\* GET /maze-status?x=..&y=.., served to completion.
Query(pos) ==
    LET r == getMazeStatus(game, pos)
    IN  /\ game' = r.game
        /\ resp' = r.resp
        /\ lastOp' = [op |-> "status", pos |-> pos]
        /\ UNCHANGED <<pc, req, loc, calls, crashed, gen, twin>>

\* GET /exploration-tree, served to completion.
Snapshot ==
    LET r == getExplorationTree(game)
    IN  /\ game' = r.game
        /\ resp' = r.resp
        /\ lastOp' = [op |-> "tree"]
        /\ UNCHANGED <<pc, req, loc, calls, crashed, gen, twin>>

NextRead ==
    \/ \E name \in Names, nextPos \in InnerTargets : Move(name, nextPos)
    \/ \E pos \in QueryTargets : Query(pos)
    \/ Snapshot
    \/ Reset

SpecRead == Init /\ [][NextRead]_vars

(***************************************************************************)
(* SpecColor: clients that start explorations until every walkable cell    *)
(* is taken.  Every request for a new exploration carries the first name   *)
(* of ColorNames not yet in use; once PaletteSize explorations exist the    *)
(* first of them, "root", is moved as well.  Requests are served one at a  *)
(* time, on the maze whose cell (1,2) stayed closed.                       *)
(***************************************************************************)
InitColor ==
    /\ game = NewGame(Pos(1, 2))
    /\ lastOp = NoOp
    /\ resp = NoResp
    /\ Idle
    /\ gen = NoRun
    /\ twin = NoRun

ColorNames == <<"root", "a", "b", "c", "d", "e", "f">>

\* The indices of the names of ColorNames that no exploration carries.
Unused(g) == {i \in 1..Len(ColorNames) : ColorNames[i] \notin DOMAIN g.Explorations}

Start(nextPos) ==
    /\ Unused(game) # {}
    /\ LET i == CHOOSE i \in Unused(game) : \A j \in Unused(game) : i <= j
       IN  ServeMove(ColorNames[i], nextPos)

Step(nextPos) ==
    /\ "root" \in DOMAIN game.Explorations
    /\ Cardinality(DOMAIN game.Explorations) >= PaletteSize
    /\ ServeMove("root", nextPos)

NextColor ==
    \/ \E nextPos \in InnerTargets : Start(nextPos)
    \/ \E nextPos \in InnerTargets : Step(nextPos)
    \/ Reset

SpecColor == InitColor /\ [][NextColor]_vars

(***************************************************************************)
(* SpecConc: net/http serves every request on a goroutine of its own and   *)
(* the handlers take no lock, so the statements of handleMove,             *)
(* handleReset and handleExplorationTree interleave.  pc[h] is the next    *)
(* statement of handler h, req[h] its request, loc[h] its locals:          *)
(*   attached  the local pointer `exploration` (for the tree handler, the  *)
(*             map held by the response) is still the one in the game;     *)
(*   obj       the object it points to once it is not (an old entry that   *)
(*             handleReset or an overwriting creation dropped from the     *)
(*             map);                                                       *)
(*   colorIndex, ret   the local colorIndex and the response.              *)
(* calls is the log of the requests accepted so far.                       *)
(***************************************************************************)
\* The positions the concurrent clients name: the start, a connecting cell
\* (a wall in one of the two mazes) and the Goal.
ConcTargets == {Pos(1, 1), Pos(2, 1), Pos(3, 3)}

Requests ==
    {[op |-> "move", name |-> n, pos |-> p] : n \in Names, p \in ConcTargets}
        \cup {[op |-> "reset"], [op |-> "tree"]}

FirstPc(r) ==
    IF r.op = "move" THEN "m_walkable"
    ELSE IF r.op = "reset" THEN "r_explorations"
    ELSE "t_stats"

\* The server accepts a request and starts its handler.
Accept(h) ==
    /\ ~crashed
    /\ pc[h] \in {"idle", "done"}
    /\ Len(calls) < MaxCalls
    /\ \E r \in Requests :
          /\ req' = [req EXCEPT ![h] = r]
          /\ pc' = [pc EXCEPT ![h] = FirstPc(r)]
          /\ calls' = Append(calls, r)
    /\ loc' = [loc EXCEPT ![h] = NoLocals]
    /\ UNCHANGED <<game, lastOp, resp, crashed, gen, twin>>

At(h, label) == ~crashed /\ pc[h] = label

Goto(h, label) == pc' = [pc EXCEPT ![h] = label]

\* The handler writes its response and ends.
Return(h, r) ==
    /\ pc' = [pc EXCEPT ![h] = "done"]
    /\ loc' = [loc EXCEPT ![h] = [NoLocals EXCEPT !.ret = r]]

\* The object behind the local pointer `exploration` of h.
Exp(h) == IF loc[h].attached THEN game.Explorations[req[h].name] ELSE loc[h].obj

\* h assigns fields of *exploration: e is the object after the assignment.
SetExp(h, e) ==
    IF loc[h].attached
    THEN /\ game' = [game EXCEPT !.Explorations[req[h].name] = e]
         /\ loc' = loc
    ELSE /\ game' = game
         /\ loc' = [loc EXCEPT ![h].obj = e]

\* line 620: if !g.isWalkable(nextPos)
MWalkable(h) ==
    /\ At(h, "m_walkable")
    /\ IF ~isWalkable(game, req[h].pos)
       THEN Return(h, MoveResponse(FALSE, "blocked"))
       ELSE Goto(h, "m_collision") /\ loc' = loc
    /\ UNCHANGED <<game, lastOp, resp, req, calls, crashed, gen, twin>>

\* line 628: if g.isCollision(nextPos)
MCollision(h) ==
    /\ At(h, "m_collision")
    /\ IF isCollision(game, req[h].pos)
       THEN Return(h, MoveResponse(FALSE, "collision"))
       ELSE Goto(h, "m_lookup") /\ loc' = loc
    /\ UNCHANGED <<game, lastOp, resp, req, calls, crashed, gen, twin>>

\* lines 636-637: exploration, exists := g.Explorations[explorationName]
MLookup(h) ==
    /\ At(h, "m_lookup")
    /\ IF req[h].name \in DOMAIN game.Explorations
       THEN Goto(h, "k_first") /\ loc' = [loc EXCEPT ![h].attached = TRUE]
       ELSE Goto(h, "n_color") /\ loc' = loc
    /\ UNCHANGED <<game, lastOp, resp, req, calls, crashed, gen, twin>>

\* line 640: colorIndex := g.NextExplorationID % 6
NColor(h) ==
    /\ At(h, "n_color")
    /\ loc' = [loc EXCEPT ![h].colorIndex = game.NextExplorationID % PaletteSize]
    /\ Goto(h, "n_increment")
    /\ UNCHANGED <<game, lastOp, resp, req, calls, crashed, gen, twin>>

\* line 641: g.NextExplorationID++
NIncrement(h) ==
    /\ At(h, "n_increment")
    /\ game' = [game EXCEPT !.NextExplorationID = @ + 1]
    /\ Goto(h, "n_put")
    /\ UNCHANGED <<lastOp, resp, req, loc, calls, crashed, gen, twin>>

\* lines 643-644: NewExploration and g.Explorations[explorationName] =
\* exploration.  A handler that held the entry this one replaces now
\* points to an object outside the map.
NPut(h) ==
    /\ At(h, "n_put")
    /\ game' = PutExploration(game, req[h].name,
                  NewExploration(req[h].name, req[h].pos, req[h].pos, Nil, 0,
                                 loc[h].colorIndex))
    /\ loc' = [k \in Handlers |->
                  IF k = h THEN [loc[k] EXCEPT !.attached = TRUE]
                  ELSE IF loc[k].attached /\ req[k].op = "move"
                          /\ req[k].name = req[h].name
                  THEN [loc[k] EXCEPT !.attached = FALSE,
                                      !.obj = game.Explorations[req[k].name]]
                  ELSE loc[k]]
    /\ Goto(h, "n_visit")
    /\ UNCHANGED <<lastOp, resp, req, calls, crashed, gen, twin>>

\* line 645: g.GlobalVisitedPositions[nextPos] = true
NVisit(h) ==
    /\ At(h, "n_visit")
    /\ game' = MarkVisited(game, req[h].pos)
    /\ Goto(h, "n_goal")
    /\ UNCHANGED <<lastOp, resp, req, loc, calls, crashed, gen, twin>>

\* lines 648 and 662-666: if g.isAtGoal(nextPos), else return continue
NGoal(h) ==
    /\ At(h, "n_goal")
    /\ IF isAtGoal(game, req[h].pos)
       THEN Goto(h, "goal_exploration") /\ loc' = loc
       ELSE Return(h, MoveResponse(TRUE, "continue"))
    /\ UNCHANGED <<game, lastOp, resp, req, calls, crashed, gen, twin>>

\* lines 649-651 and 685-687: FoundGoal, IsActive and IsComplete
GoalExploration(h) ==
    /\ At(h, "goal_exploration")
    /\ SetExp(h, [Exp(h) EXCEPT !.FoundGoal = TRUE,
                                !.IsActive = FALSE,
                                !.IsComplete = TRUE])
    /\ Goto(h, "goal_game")
    /\ UNCHANGED <<lastOp, resp, req, calls, crashed, gen, twin>>

\* lines 652-659 and 688-695: GoalFound, WinningExploration, return
GoalGame(h) ==
    /\ At(h, "goal_game")
    /\ game' = [game EXCEPT !.GoalFound = TRUE,
                            !.WinningExploration = req[h].name]
    /\ Return(h, MoveResponse(TRUE, "goal_reached"))
    /\ UNCHANGED <<lastOp, resp, req, calls, crashed, gen, twin>>

\* line 670: the test for the root's first move
KFirst(h) ==
    /\ At(h, "k_first")
    /\ IF /\ req[h].name = "root"
          /\ req[h].pos.X = 1
          /\ req[h].pos.Y = 1
          /\ Len(Exp(h).PathPositions) = 1
       THEN Goto(h, "k_first_visit")
       ELSE Goto(h, "k_current")
    /\ UNCHANGED <<game, lastOp, resp, req, loc, calls, crashed, gen, twin>>

\* lines 672-677: mark and return continue
KFirstVisit(h) ==
    /\ At(h, "k_first_visit")
    /\ game' = MarkVisited(game, req[h].pos)
    /\ Return(h, MoveResponse(TRUE, "continue"))
    /\ UNCHANGED <<lastOp, resp, req, calls, crashed, gen, twin>>

\* line 680: exploration.CurrentPosition = nextPos
KCurrent(h) ==
    /\ At(h, "k_current")
    /\ SetExp(h, [Exp(h) EXCEPT !.CurrentPosition = req[h].pos])
    /\ Goto(h, "k_append")
    /\ UNCHANGED <<lastOp, resp, req, calls, crashed, gen, twin>>

\* line 681: exploration.PathPositions = append(..., nextPos)
KAppend(h) ==
    /\ At(h, "k_append")
    /\ SetExp(h, [Exp(h) EXCEPT !.PathPositions = Append(@, req[h].pos)])
    /\ Goto(h, "k_visit")
    /\ UNCHANGED <<lastOp, resp, req, calls, crashed, gen, twin>>

\* line 682: g.GlobalVisitedPositions[nextPos] = true
KVisit(h) ==
    /\ At(h, "k_visit")
    /\ game' = MarkVisited(game, req[h].pos)
    /\ Goto(h, "k_goal")
    /\ UNCHANGED <<lastOp, resp, req, loc, calls, crashed, gen, twin>>

\* line 684: if g.isAtGoal(nextPos)
KGoal(h) ==
    /\ At(h, "k_goal")
    /\ IF isAtGoal(game, req[h].pos)
       THEN Goto(h, "goal_exploration")
       ELSE Goto(h, "k_valid")
    /\ UNCHANGED <<game, lastOp, resp, req, loc, calls, crashed, gen, twin>>

\* lines 698-699 and 710-722: validMoves and the answers that change nothing
KValid(h) ==
    /\ At(h, "k_valid")
    /\ LET validMoves == getValidDirections(game, req[h].pos)
       IN  IF Len(validMoves) = 0
           THEN Goto(h, "k_dead") /\ loc' = loc
           ELSE IF Len(validMoves) > 1
           THEN Return(h, MoveResponse(TRUE, "junction"))
           ELSE Return(h, MoveResponse(TRUE, "continue"))
    /\ UNCHANGED <<game, lastOp, resp, req, calls, crashed, gen, twin>>

\* lines 700-707: IsDead, IsActive, IsComplete, return dead_end
KDead(h) ==
    /\ At(h, "k_dead")
    /\ game' = IF loc[h].attached THEN MarkDead(game, req[h].name) ELSE game
    /\ Return(h, MoveResponse(TRUE, "dead_end"))
    /\ UNCHANGED <<lastOp, resp, req, calls, crashed, gen, twin>>

\* line 457: game.Explorations = make(...).  The handlers that hold an
\* entry, or the map itself, keep the old objects.
RExplorations(h) ==
    /\ At(h, "r_explorations")
    /\ game' = [game EXCEPT !.Explorations = << >>]
    /\ loc' = [k \in Handlers |->
                  IF ~loc[k].attached THEN loc[k]
                  ELSE IF req[k].op = "move"
                  THEN [loc[k] EXCEPT !.attached = FALSE,
                                      !.obj = game.Explorations[req[k].name]]
                  ELSE [loc[k] EXCEPT !.attached = FALSE,
                                      !.obj = game.Explorations]]
    /\ Goto(h, "r_visited")
    /\ UNCHANGED <<lastOp, resp, req, calls, crashed, gen, twin>>

\* line 458: game.GlobalVisitedPositions = make(...)
RVisited(h) ==
    /\ At(h, "r_visited")
    /\ game' = [game EXCEPT !.GlobalVisitedPositions = {}]
    /\ Goto(h, "r_goalfound")
    /\ UNCHANGED <<lastOp, resp, req, loc, calls, crashed, gen, twin>>

\* line 459: game.GoalFound = false
RGoalFound(h) ==
    /\ At(h, "r_goalfound")
    /\ game' = [game EXCEPT !.GoalFound = FALSE]
    /\ Goto(h, "r_winning")
    /\ UNCHANGED <<lastOp, resp, req, loc, calls, crashed, gen, twin>>

\* line 460: game.WinningExploration = nil
RWinning(h) ==
    /\ At(h, "r_winning")
    /\ game' = [game EXCEPT !.WinningExploration = Nil]
    /\ Goto(h, "r_counters")
    /\ UNCHANGED <<lastOp, resp, req, loc, calls, crashed, gen, twin>>

\* lines 461-470: NextExplorationID and the three fields no handler
\* writes, then the response
RCounters(h) ==
    /\ At(h, "r_counters")
    /\ game' = [game EXCEPT !.NextExplorationID = 0,
                            !.TotalSteps = 0,
                            !.MaxConcurrentExplorations = 0,
                            !.ShowOnlyWinner = FALSE]
    /\ Return(h, MoveResponse(TRUE, "reset"))
    /\ UNCHANGED <<lastOp, resp, req, calls, crashed, gen, twin>>

\* lines 725-747: getExplorationTree counts and takes the map itself
TStats(h) ==
    /\ At(h, "t_stats")
    /\ loc' = [loc EXCEPT ![h].attached = TRUE,
                          ![h].ret = [GlobalStats |-> GlobalStats(game)]]
    /\ Goto(h, "t_encode")
    /\ UNCHANGED <<game, lastOp, resp, req, calls, crashed, gen, twin>>

\* line 447: the encoder reads the explorations of the map of the response
TEncode(h) ==
    /\ At(h, "t_encode")
    /\ Return(h, [Explorations |-> IF loc[h].attached THEN game.Explorations
                                   ELSE loc[h].obj,
                  GlobalStats |-> loc[h].ret.GlobalStats])
    /\ UNCHANGED <<game, lastOp, resp, req, calls, crashed, gen, twin>>

\* The map accesses of the next statement of h.  The Go runtime aborts the
\* process ("concurrent map writes", "concurrent map read and map write")
\* when it catches a write to a map overlapping another access to it.
MapAccess(h) ==
    IF pc[h] \in {"m_collision", "k_valid"} THEN [map |-> "visited", write |-> FALSE]
    ELSE IF pc[h] \in {"n_visit", "k_visit", "k_first_visit"}
    THEN [map |-> "visited", write |-> TRUE]
    ELSE IF pc[h] \in {"m_lookup", "t_stats"} THEN [map |-> "explorations", write |-> FALSE]
    ELSE IF pc[h] = "t_encode" /\ loc[h].attached
    THEN [map |-> "explorations", write |-> FALSE]
    ELSE IF pc[h] = "n_put" THEN [map |-> "explorations", write |-> TRUE]
    ELSE [map |-> "none", write |-> FALSE]

Abort(h) ==
    /\ ~crashed
    /\ MapAccess(h).write
    /\ \E k \in Handlers \ {h} : MapAccess(k).map = MapAccess(h).map
    /\ crashed' = TRUE
    /\ UNCHANGED <<game, lastOp, resp, pc, req, loc, calls, gen, twin>>

NextConc ==
    \/ \E h \in Handlers : Accept(h)
    \/ \E h \in Handlers : MWalkable(h)
    \/ \E h \in Handlers : MCollision(h)
    \/ \E h \in Handlers : MLookup(h)
    \/ \E h \in Handlers : NColor(h)
    \/ \E h \in Handlers : NIncrement(h)
    \/ \E h \in Handlers : NPut(h)
    \/ \E h \in Handlers : NVisit(h)
    \/ \E h \in Handlers : NGoal(h)
    \/ \E h \in Handlers : GoalExploration(h)
    \/ \E h \in Handlers : GoalGame(h)
    \/ \E h \in Handlers : KFirst(h)
    \/ \E h \in Handlers : KFirstVisit(h)
    \/ \E h \in Handlers : KCurrent(h)
    \/ \E h \in Handlers : KAppend(h)
    \/ \E h \in Handlers : KVisit(h)
    \/ \E h \in Handlers : KGoal(h)
    \/ \E h \in Handlers : KValid(h)
    \/ \E h \in Handlers : KDead(h)
    \/ \E h \in Handlers : RExplorations(h)
    \/ \E h \in Handlers : RVisited(h)
    \/ \E h \in Handlers : RGoalFound(h)
    \/ \E h \in Handlers : RWinning(h)
    \/ \E h \in Handlers : RCounters(h)
    \/ \E h \in Handlers : TStats(h)
    \/ \E h \in Handlers : TEncode(h)
    \/ \E h \in Handlers : Abort(h)

SpecConc == Init /\ [][NextConc]_vars

(***************************************************************************)
(* NewGame and generateMaze, step by step.  A run is a record of the Game  *)
(* being built (g) and the locals of generateMaze (l): the position pc in  *)
(* the function, stack, visited, the loop counter i, the x drawn by the    *)
(* loop-opening pass, bestGoal, and mapSeed, the iteration seed the Go     *)
(* runtime gives the map visited.  pushed and popped log the cells         *)
(* appended to and cut from the stack.  rand.Intn(n) yields any of         *)
(* 0..n-1 and aborts the process when n <= 0; an index outside a slice     *)
(* aborts the process as well (pc "panic").                                *)
(***************************************************************************)
\* Go's integer division, which truncates towards zero (b > 0).
Quot(a, b) == IF a >= 0 THEN a \div b ELSE -((-a) \div b)

\* lines 474-479: an even width or height is raised by one
RoundUp(n) == IF n % 2 = 0 THEN n + 1 ELSE n

\* Number of lattice cells (odd x, odd y inside the border) of a grid.
LatticeCount(width, height) ==
    Quot(RoundUp(width) - 1, 2) * Quot(RoundUp(height) - 1, 2)

\* The sizes NewGame is called with: width and height of at least 3 whose
\* grid has at most MaxCells lattice cells.
Sizes ==
    {s \in (3..(2 * MaxCells + 1)) \X (3..(2 * MaxCells + 1)) :
        LatticeCount(s[1], s[2]) <= MaxCells}

\* lines 123-133: the Game before generateMaze is called
NewGameStruct(width, height) ==
    [Maze |-> << >>,
     Width |-> width,
     Height |-> height,
     Start |-> Pos(0, 0),
     Goal |-> Pos(0, 0),
     Explorations |-> << >>,
     GlobalVisitedPositions |-> {},
     GoalFound |-> FALSE,
     WinningExploration |-> Nil,
     NextExplorationID |-> 0,
     TotalSteps |-> 0,
     MaxConcurrentExplorations |-> 0,
     ShowOnlyWinner |-> FALSE]

NewRun(width, height, mapSeed) ==
    [g |-> NewGameStruct(width, height),
     l |-> [pc |-> "round", stack |-> << >>, visited |-> {}, i |-> 0, x |-> 0,
            y |-> 0, bestGoal |-> Pos(0, 0), mapSeed |-> mapSeed,
            pushed |-> << >>, popped |-> << >>]]

Panic(r) == [r EXCEPT !.l.pc = "panic"]

\* g.Maze[y][x] = cell, with the index check of the runtime.
SetCell(r, x, y, cell) ==
    IF y \in DOMAIN r.g.Maze /\ x \in DOMAIN r.g.Maze[y]
    THEN [r EXCEPT !.g.Maze[y][x] = cell]
    ELSE Panic(r)

\* r with the position in generateMaze set to pc, unless the run has aborted.
At2(r, pc2) == IF r.l.pc = "panic" THEN r ELSE [r EXCEPT !.l.pc = pc2]

\* lines 474-479
Round(r) ==
    At2([r EXCEPT !.g.Width = RoundUp(@), !.g.Height = RoundUp(@)], "walls")

\* lines 481-487: every cell is WALL
Walls(r) ==
    At2([r EXCEPT !.g.Maze = [y \in 0..(r.g.Height - 1) |->
                                [x \in 0..(r.g.Width - 1) |-> WALL]]],
        "lattice")

\* lines 489-497: the cells at odd x and y inside the border are PATH; the
\* stack and the visited map hold (1,1)
Lattice(r) ==
    At2([r EXCEPT !.g.Maze = [y \in 0..(r.g.Height - 1) |->
                                [x \in 0..(r.g.Width - 1) |->
                                    IF /\ y % 2 = 1 /\ y < r.g.Height - 1
                                       /\ x % 2 = 1 /\ x < r.g.Width - 1
                                    THEN PATH ELSE r.g.Maze[y][x]]],
                   !.l.stack = <<Pos(1, 1)>>,
                   !.l.visited = {Pos(1, 1)},
                   !.l.pushed = <<Pos(1, 1)>>],
        "carve")

\* line 497: the order in which the carving loop tries the directions
CarveDirections == <<Pos(0, -2), Pos(2, 0), Pos(0, 2), Pos(-2, 0)>>

\* Variant of Neighbors: the candidates are collected from a Go map, whose
\* iteration order differs from run to run.
Neighbors_fromMap(r) ==
    LET current == r.l.stack[Len(r.l.stack)]
        open == SelectSeq(CarveDirections,
                    LAMBDA d :
                        LET next == Add(current, d)
                        IN  /\ next.X >= 1 /\ next.X < r.g.Width - 1
                            /\ next.Y >= 1 /\ next.Y < r.g.Height - 1
                            /\ next \notin r.l.visited)
    IN  [k \in 1..Len(open) |->
            Add(current, open[IF r.l.mapSeed = 0 THEN k ELSE Len(open) + 1 - k])]

\* lines 500-510: the unvisited lattice cells two steps from the top of the
\* stack, in the order of CarveDirections
Neighbors(r) ==
    LET current == r.l.stack[Len(r.l.stack)]
        open == SelectSeq(CarveDirections,
                    LAMBDA d :
                        LET next == Add(current, d)
                        IN  /\ next.X >= 1 /\ next.X < r.g.Width - 1
                            /\ next.Y >= 1 /\ next.Y < r.g.Height - 1
                            /\ next \notin r.l.visited)
    IN  [k \in 1..Len(open) |-> Add(current, open[k])]

\* Variant of WallBetween: the cell carved is the neighbour itself.
WallBetween_atNext(current, next) == next

\* lines 515-517: the cell between current and next
WallBetween(current, next) ==
    Pos(current.X + Quot(next.X - current.X, 2),
        current.Y + Quot(next.Y - current.Y, 2))

\* lines 512-521: rand.Intn drew n; the neighbour is visited, the cell
\* between is carved and the neighbour is pushed
Carve(r, n) ==
    LET current == r.l.stack[Len(r.l.stack)]
        next == Neighbors(r)[n + 1]
        wall == WallBetween(current, next)
        r1 == SetCell([r EXCEPT !.l.visited = @ \cup {next}], wall.X, wall.Y, PATH)
    IN  IF r1.l.pc = "panic" THEN r1
        ELSE [r1 EXCEPT !.l.stack = Append(@, next),
                        !.l.pushed = Append(@, next)]

\* Variant of Pop: a dead end empties the stack.
Pop_clears(r) ==
    [r EXCEPT !.l.stack = << >>,
              !.l.popped = Append(@, r.l.stack[Len(r.l.stack)])]

\* line 522: the top of the stack is cut off
Pop(r) ==
    [r EXCEPT !.l.stack = SubSeq(@, 1, Len(@) - 1),
              !.l.popped = Append(@, r.l.stack[Len(r.l.stack)])]

\* line 526: the number of rounds of the loop-opening pass
LoopRounds(g) == Quot(g.Width * g.Height, 30)

\* lines 527-528: the arguments of the two rand.Intn of a round
XBound(g) == Quot(g.Width - 4, 2)

YBound(g) == Quot(g.Height - 4, 2)

\* Variant: the x of the loop-opening pass starts at the border.
LoopX_fromBorder(r, n) ==
    IF XBound(r.g) <= 0 THEN Panic(r)
    ELSE [r EXCEPT !.l.x = n * 2, !.l.pc = "loop_y"]

\* line 527: rand.Intn drew n for x
LoopX(r, n) ==
    IF XBound(r.g) <= 0 THEN Panic(r)
    ELSE [r EXCEPT !.l.x = 2 + n * 2, !.l.pc = "loop_y"]

\* line 530: the order in which a round looks at the cells around (x, y)
OpenDirections == <<Pos(0, 1), Pos(1, 0), Pos(0, -1), Pos(-1, 0)>>

\* Variant of LoopY: the cell (x, y) becomes PATH whatever is next to it.
LoopY_always(r, n) ==
    IF YBound(r.g) <= 0 THEN Panic(r)
    ELSE LET y == 2 + n * 2
         IN  At2([SetCell(r, r.l.x, y, PATH) EXCEPT !.l.y = y, !.l.i = @ + 1], "loop")

\* lines 528-537: rand.Intn drew n for y; the cell (x, y) becomes PATH when
\* a cell next to it is PATH
LoopY(r, n) ==
    IF YBound(r.g) <= 0 THEN Panic(r)
    ELSE LET x == r.l.x
             y == 2 + n * 2
             nextToPath ==
                 \E k \in 1..Len(OpenDirections) :
                     LET nx == x + OpenDirections[k].X
                         ny == y + OpenDirections[k].Y
                     IN  /\ nx >= 0 /\ nx < r.g.Width
                         /\ ny >= 0 /\ ny < r.g.Height
                         /\ r.g.Maze[ny][nx] = PATH
             r1 == IF nextToPath THEN SetCell(r, x, y, PATH) ELSE r
         IN  At2([r1 EXCEPT !.l.y = y, !.l.i = @ + 1], "loop")

\* lines 540-541
PlaceStart(r) ==
    At2(SetCell([r EXCEPT !.g.Start = Pos(1, 1)], 1, 1, START), "scan")

\* lines 545-546: the cells the goal scan looks at, row by row
ScanCells(g) ==
    LET nx == Quot(g.Width - 1, 2)
        ny == Quot(g.Height - 1, 2)
    IN  [k \in 1..(nx * ny) |->
            Pos(1 + 2 * ((k - 1) % nx), 1 + 2 * ((k - 1) \div nx))]

abs(x) == IF x < 0 THEN -x ELSE x

\* Variant of ScanFrom: the distance counts the columns only.
RECURSIVE ScanFrom_columnsOnly(_, _, _, _)
ScanFrom_columnsOnly(g, k, maxDist, bestGoal) ==
    IF k > Len(ScanCells(g)) THEN bestGoal
    ELSE LET c == ScanCells(g)[k]
             dist == abs(c.X - 1)
         IN  IF g.Maze[c.Y][c.X] = PATH /\ dist > maxDist
             THEN ScanFrom_columnsOnly(g, k + 1, dist, c)
             ELSE ScanFrom_columnsOnly(g, k + 1, maxDist, bestGoal)

\* lines 545-555: the scan from its k-th cell on
RECURSIVE ScanFrom(_, _, _, _)
ScanFrom(g, k, maxDist, bestGoal) ==
    IF k > Len(ScanCells(g)) THEN bestGoal
    ELSE LET c == ScanCells(g)[k]
             dist == abs(c.X - 1) + abs(c.Y - 1)
         IN  IF g.Maze[c.Y][c.X] = PATH /\ dist > maxDist
             THEN ScanFrom(g, k + 1, dist, c)
             ELSE ScanFrom(g, k + 1, maxDist, bestGoal)

\* lines 543-555
Scan(r) ==
    At2([r EXCEPT !.l.bestGoal =
            ScanFrom(r.g, 1, 0, Pos(r.g.Width - 2, r.g.Height - 2))],
        "goal")

\* lines 557-558
MarkGoal(r) ==
    At2(SetCell([r EXCEPT !.g.Goal = r.l.bestGoal],
                r.l.bestGoal.X, r.l.bestGoal.Y, GOAL),
        "done")

\* The statement a run is at draws from rand.Intn(DrawBound(r)), or draws
\* nothing.
Drawing(r) ==
    \/ r.l.pc = "carve" /\ Len(r.l.stack) > 0 /\ Len(Neighbors(r)) > 0
    \/ r.l.pc \in {"loop_x", "loop_y"}

DrawBound(r) ==
    IF r.l.pc = "carve" THEN Len(Neighbors(r))
    ELSE IF r.l.pc = "loop_x" THEN XBound(r.g)
    ELSE YBound(r.g)

\* The values the next statement of a run can draw: those of rand.Intn,
\* one placeholder when it aborts or draws nothing.
Draws(r) ==
    IF Drawing(r) /\ DrawBound(r) > 0 THEN 0..(DrawBound(r) - 1) ELSE {0}

\* The run after its next statement, which draws n if it draws.
GenStep(r, n) ==
    CASE r.l.pc = "round" -> Round(r)
      [] r.l.pc = "walls" -> Walls(r)
      [] r.l.pc = "lattice" -> Lattice(r)
      [] r.l.pc = "carve" ->
            IF Len(r.l.stack) = 0 THEN At2(r, "loop")
            ELSE IF Len(Neighbors(r)) > 0 THEN Carve(r, n)
            ELSE Pop(r)
      [] r.l.pc = "loop" ->
            IF r.l.i < LoopRounds(r.g) THEN At2(r, "loop_x") ELSE At2(r, "start")
      [] r.l.pc = "loop_x" -> LoopX(r, n)
      [] r.l.pc = "loop_y" -> LoopY(r, n)
      [] r.l.pc = "start" -> PlaceStart(r)
      [] r.l.pc = "scan" -> Scan(r)
      [] r.l.pc = "goal" -> MarkGoal(r)
      [] OTHER -> r

\* The run ended: generateMaze returned or the process aborted.
Ended(r) == r.l.pc \in {"done", "panic"}

(***************************************************************************)
(* SpecGen: one call of NewGame(width, height, seed), the statements of    *)
(* generateMaze one after another.  game is the Game being built and gen   *)
(* the locals.                                                             *)
(***************************************************************************)
InitGen ==
    /\ \E s \in Sizes :
          /\ game = NewRun(s[1], s[2], 0).g
          /\ gen = NewRun(s[1], s[2], 0).l
    /\ twin = NoRun
    /\ lastOp = NoOp
    /\ resp = NoResp
    /\ Idle

RunNow == [g |-> game, l |-> gen]

Becomes(r) ==
    /\ game' = r.g
    /\ gen' = r.l
    /\ UNCHANGED <<lastOp, resp, pc, req, loc, calls, crashed, twin>>

GRound == gen.pc = "round" /\ Becomes(Round(RunNow))

GWalls == gen.pc = "walls" /\ Becomes(Walls(RunNow))

GLattice == gen.pc = "lattice" /\ Becomes(Lattice(RunNow))

GCarve ==
    /\ gen.pc = "carve"
    /\ Len(gen.stack) > 0
    /\ Len(Neighbors(RunNow)) > 0
    /\ \E n \in 0..(Len(Neighbors(RunNow)) - 1) : Becomes(Carve(RunNow, n))

GPop ==
    /\ gen.pc = "carve"
    /\ Len(gen.stack) > 0
    /\ Len(Neighbors(RunNow)) = 0
    /\ Becomes(Pop(RunNow))

GCarved ==
    /\ gen.pc = "carve"
    /\ Len(gen.stack) = 0
    /\ Becomes(At2(RunNow, "loop"))

GLoop ==
    /\ gen.pc = "loop"
    /\ gen.i < LoopRounds(game)
    /\ Becomes(At2(RunNow, "loop_x"))

GLooped ==
    /\ gen.pc = "loop"
    /\ gen.i >= LoopRounds(game)
    /\ Becomes(At2(RunNow, "start"))

GLoopX ==
    /\ gen.pc = "loop_x"
    /\ \E n \in Draws(RunNow) : Becomes(LoopX(RunNow, n))

GLoopY ==
    /\ gen.pc = "loop_y"
    /\ \E n \in Draws(RunNow) : Becomes(LoopY(RunNow, n))

GPlaceStart == gen.pc = "start" /\ Becomes(PlaceStart(RunNow))

GScan == gen.pc = "scan" /\ Becomes(Scan(RunNow))

GMarkGoal == gen.pc = "goal" /\ Becomes(MarkGoal(RunNow))

NextGen ==
    \/ GRound
    \/ GWalls
    \/ GLattice
    \/ GCarve
    \/ GPop
    \/ GCarved
    \/ GLoop
    \/ GLooped
    \/ GLoopX
    \/ GLoopY
    \/ GPlaceStart
    \/ GScan
    \/ GMarkGoal

SpecGen == InitGen /\ [][NextGen]_vars

\* generateMaze is straight-line code on one goroutine: a statement that can
\* run does run.
\* The calls of NewGame of SpecGenLive.
InitGenLive ==
    /\ \E s \in {t \in Sizes : LatticeCount(t[1], t[2]) <= MaxLiveCells} :
          /\ game = NewRun(s[1], s[2], 0).g
          /\ gen = NewRun(s[1], s[2], 0).l
    /\ twin = NoRun
    /\ lastOp = NoOp
    /\ resp = NoResp
    /\ Idle

\* generateMaze runs in the one goroutine of main, before the server starts:
\* a statement that can run does run.
SpecGenLive == InitGenLive /\ [][NextGen]_vars /\ WF_vars(NextGen)

(***************************************************************************)
(* SpecGenTwice: two calls of NewGame with the same width, height and      *)
(* seed, statement by statement side by side.  The same seed gives both    *)
(* the same stream of raw random values; rand.Intn(n) reduces the raw      *)
(* value to 0..n-1.  The two runs differ in what the runtime chose for     *)
(* them (mapSeed).                                                         *)
(***************************************************************************)
RawDraws(r1, r2) ==
    LET b1 == IF Drawing(r1) /\ DrawBound(r1) > 0 THEN DrawBound(r1) ELSE 1
        b2 == IF Drawing(r2) /\ DrawBound(r2) > 0 THEN DrawBound(r2) ELSE 1
    IN  0..((IF b1 >= b2 THEN b1 ELSE b2) - 1)

\* What the next statement of run r makes of the raw value v.
Pick(r, v) == IF Drawing(r) /\ DrawBound(r) > 0 THEN v % DrawBound(r) ELSE 0

InitTwice ==
    /\ \E s \in Sizes :
          /\ game = NewRun(s[1], s[2], 0).g
          /\ gen = NewRun(s[1], s[2], 0).l
          /\ twin = NewRun(s[1], s[2], 1)
    /\ lastOp = NoOp
    /\ resp = NoResp
    /\ Idle

BothStep ==
    /\ ~(Ended(RunNow) /\ Ended(twin))
    /\ \E v \in RawDraws(RunNow, twin) :
          LET first == GenStep(RunNow, Pick(RunNow, v))
          IN  /\ game' = first.g
              /\ gen' = first.l
              /\ twin' = GenStep(twin, Pick(twin, v))
    /\ UNCHANGED <<lastOp, resp, pc, req, loc, calls, crashed>>

NextTwice == BothStep

SpecGenTwice == InitTwice /\ [][NextTwice]_vars

(***************************************************************************)
(* The engine of src/unnamed/part_000.  Its Exploration has no              *)
(* FixedColorIndex, its NewExploration no colour parameter, and its        *)
(* moveExploration creates the exploration of an unknown name and then     *)
(* goes on with the statements of a known one.  isWalkable, isCollision,   *)
(* getValidDirections, isAtGoal and handleReset read and write the fields  *)
(* they do in main.go.                                                     *)
(***************************************************************************)
\* part_000 lines 62-81
PartNewExploration(id, startPos, currentPos, parentID, generation) ==
    [ID |-> id,
     StartPosition |-> startPos,
     CurrentPosition |-> currentPos,
     PathPositions |-> IF currentPos # startPos
                       THEN <<startPos, currentPos>>
                       ELSE <<startPos>>,
     ParentID |-> parentID,
     ChildIDs |-> << >>,
     IsActive |-> TRUE,
     IsComplete |-> FALSE,
     IsDead |-> FALSE,
     FoundGoal |-> FALSE,
     Generation |-> generation]

\* part_000 lines 393-471
PartMoveExploration(g, explorationName, nextPos) ==
    IF ~isWalkable(g, nextPos)
    THEN Ret(g, FALSE, "blocked")
    ELSE IF isCollision(g, nextPos)
    THEN Ret(g, FALSE, "collision")
    ELSE LET g1 == IF explorationName \notin DOMAIN g.Explorations
                   THEN PutExploration(g, explorationName,
                            PartNewExploration(explorationName, nextPos, nextPos, Nil, 0))
                   ELSE g
         IN  IF IsRootFirstMove(g1, explorationName, nextPos)
             THEN Ret(MarkVisited(g1, nextPos), TRUE, "continue")
             ELSE MoveKnown(g1, explorationName, nextPos)

\* POST /move of part_000 (lines 210-226), served to completion while fewer
\* than MaxVisited positions are visited.
PartMove(name, nextPos) ==
    LET r == PartMoveExploration(game, name, nextPos)
    IN  /\ r.resp.Success => Cardinality(game.GlobalVisitedPositions) < MaxVisited
        /\ game' = r.game
        /\ resp' = r.resp
        /\ lastOp' = [op |-> "move", name |-> name, pos |-> nextPos]
        /\ UNCHANGED <<pc, req, loc, calls, crashed, gen, twin>>

NextPart ==
    \/ \E name \in Names, nextPos \in InnerTargets : PartMove(name, nextPos)
    \/ Reset

SpecPart == Init /\ [][NextPart]_vars

(***************************************************************************)
(* The colour classifier.  An exploration has a parent only in a game      *)
(* loaded by NewGameFromJSON (moveExploration creates every exploration    *)
(* with a nil ParentID), so SpecClassify starts from loaded games.  A      *)
(* class is the four values the classifier returns: the colour as          *)
(* <<R, G, B, A>>, the line width, the opacity in tenths and the priority. *)
(***************************************************************************)
winnerColor == <<255, 109, 0, 255>>

deadColor == <<158, 158, 158, 255>>

segmentColors ==
    << <<33, 150, 243, 255>>, <<156, 39, 176, 255>>, <<255, 87, 34, 255>>,
       <<139, 195, 74, 255>>, <<0, 188, 212, 255>>, <<233, 30, 99, 255>> >>

\* return winnerColor, 3, 1.0, 10
WinnerStyle == [Color |-> winnerColor, LineWidth |-> 3, Opacity |-> 10, Priority |-> 10]

\* return deadColor, 2, 0.5, 2
DeadStyle == [Color |-> deadColor, LineWidth |-> 2, Opacity |-> 5, Priority |-> 2]

\* return segmentColors[index], 2, 0.9, 5 (Go indexes from 0)
SegmentStyle(index) ==
    [Color |-> segmentColors[index + 1], LineWidth |-> 2, Opacity |-> 9, Priority |-> 5]

\* The direct children of explorationID, in the order of `order` (the order
\* in which the range over the map g.Explorations yields them).
getChildExplorations(g, explorationID, order) ==
    SelectSeq(order, LAMBDA n : /\ n \in DOMAIN g.Explorations
                                /\ g.Explorations[n].ParentID # Nil
                                /\ g.Explorations[n].ParentID = explorationID)

\* lines 245-254: the key a child adds to the map childColors
ChildKey(g, childID, order) ==
    LET childExp == g.Explorations[childID]
    IN  IF childExp.FoundGoal THEN [name |-> "winner", index |-> 0]
        ELSE IF childExp.IsDead
                /\ Len(getChildExplorations(g, childExp.ID, order)) = 0
             THEN [name |-> "dead", index |-> 0]
        ELSE [name |-> "", index |-> childExp.FixedColorIndex % Len(segmentColors)]

\* Variant of the classifier: death is tested before victory.
getExplorationDisplayColorAndStyle_deadFirst(g, id, order) ==
    LET exp == g.Explorations[id]
        childExplorations == getChildExplorations(g, exp.ID, order)
        childColors == {ChildKey(g, childExplorations[k], order) :
                            k \in 1..Len(childExplorations)}
        own == SegmentStyle(exp.FixedColorIndex % Len(segmentColors))
        style ==
            IF exp.IsDead /\ Len(childExplorations) = 0 THEN DeadStyle
            ELSE IF exp.FoundGoal THEN WinnerStyle
            ELSE IF Len(childExplorations) = 0 THEN own
            ELSE IF Cardinality(childColors) = 1
                 THEN LET singleColor == CHOOSE c \in childColors : TRUE
                      IN  IF singleColor.name = "winner" THEN WinnerStyle
                          ELSE IF singleColor.name = "dead" THEN DeadStyle
                          ELSE SegmentStyle(singleColor.index)
            ELSE own
    IN  [game |-> g, resp |-> style]

\* lines 209-280
getExplorationDisplayColorAndStyle(g, id, order) ==
    LET exp == g.Explorations[id]
        childExplorations == getChildExplorations(g, exp.ID, order)
        childColors == {ChildKey(g, childExplorations[k], order) :
                            k \in 1..Len(childExplorations)}
        own == SegmentStyle(exp.FixedColorIndex % Len(segmentColors))
        style ==
            IF exp.FoundGoal THEN WinnerStyle
            ELSE IF exp.IsDead /\ Len(childExplorations) = 0 THEN DeadStyle
            ELSE IF Len(childExplorations) = 0 THEN own
            ELSE IF Cardinality(childColors) = 1
                 THEN LET singleColor == CHOOSE c \in childColors : TRUE
                      IN  IF singleColor.name = "winner" THEN WinnerStyle
                          ELSE IF singleColor.name = "dead" THEN DeadStyle
                          ELSE SegmentStyle(singleColor.index)
            ELSE own
    IN  [game |-> g, resp |-> style]

\* The segment IDs of the loaded files.
SegmentIDs == <<"root", "a", "b", "c">>

\* The values of fixed_color_index in the loaded files: 6 wraps to 0.
LoadedColors == {1, 6}

\* The forests of the loaded files: a segment's parent is nil or a segment
\* earlier in SegmentIDs.
Forests ==
    {f \in [1..Len(SegmentIDs) -> {Nil} \cup {SegmentIDs[k] : k \in 1..Len(SegmentIDs)}] :
        \A k \in 1..Len(SegmentIDs) :
            f[k] = Nil \/ \E m \in 1..(k - 1) : f[k] = SegmentIDs[m]}

\* A segment of a loaded file.
Segment(id, parentID, fixedColorIndex, foundGoal, isDead) ==
    [NewExploration(id, Pos(1, 1), Pos(1, 1), parentID, 0, fixedColorIndex)
        EXCEPT !.FoundGoal = foundGoal, !.IsDead = isDead, !.IsActive = ~(foundGoal \/ isDead)]

\* lines 140-196: the game made of the maze and the segments of a file
NewGameFromJSON(segments) ==
    [NewGame(Pos(1, 2)) EXCEPT !.Explorations = segments,
                               !.NextExplorationID = Len(SegmentIDs)]

InitClassify ==
    /\ \E f \in Forests :
       \E colors \in [1..Len(SegmentIDs) -> LoadedColors] :
       \E foundGoal \in [1..Len(SegmentIDs) -> BOOLEAN] :
       \E isDead \in [1..Len(SegmentIDs) -> BOOLEAN] :
          game = NewGameFromJSON(
                    [n \in {SegmentIDs[k] : k \in 1..Len(SegmentIDs)} |->
                        LET k == CHOOSE m \in 1..Len(SegmentIDs) : SegmentIDs[m] = n
                        IN  Segment(n, f[k], colors[k], foundGoal[k], isDead[k])])
    /\ lastOp = NoOp
    /\ resp = NoResp
    /\ Idle
    /\ gen = NoRun
    /\ twin = NoRun

\* The orders in which a range over g.Explorations can yield the segments.
Orders == {SegmentIDs, [k \in 1..Len(SegmentIDs) |-> SegmentIDs[Len(SegmentIDs) + 1 - k]]}

\* One exploration is classified for drawing (generateMazeSVG, line 1171).
Classify(name) ==
    /\ name \in DOMAIN game.Explorations
    /\ \E order \in Orders :
          LET r == getExplorationDisplayColorAndStyle(game, name, order)
          IN  /\ game' = r.game
              /\ resp' = r.resp
    /\ lastOp' = [op |-> "classify", name |-> name]
    /\ UNCHANGED <<pc, req, loc, calls, crashed, gen, twin>>

NextClassify == \E k \in 1..Len(SegmentIDs) : Classify(SegmentIDs[k])

SpecClassify == InitClassify /\ [][NextClassify]_vars

(***************************************************************************)
(* Vocabulary of the properties.  These are stated on the grid and on the  *)
(* visited set directly, not through the operators of the engine.          *)
(***************************************************************************)
IsMove(op) == op.op = "move"

InGrid(g, p) == p.X \in 0..(g.Width - 1) /\ p.Y \in 0..(g.Height - 1)

Walkable(g, p) == InGrid(g, p) /\ g.Maze[p.Y][p.X] # WALL

Visited(g, p) == p \in g.GlobalVisitedPositions

Known(g, n) == n \in DOMAIN g.Explorations

\* Number of directions from p whose target is walkable and not visited.
FreeNeighbours(g, p) ==
    Cardinality({d \in {UP, DOWN, LEFT, RIGHT} :
                    Walkable(g, Add(p, d)) /\ ~Visited(g, Add(p, d))})

(***************************************************************************)
(* C1.  Collision invariant: once a position is visited, it stays visited  *)
(* until a reset, and every move to it, by any name, is answered           *)
(* collision with Success = false.                                         *)
(***************************************************************************)
C1_CollisionInvariant ==
    [][/\ lastOp'.op # "reset" =>
              game.GlobalVisitedPositions \subseteq game'.GlobalVisitedPositions
       /\ (IsMove(lastOp') /\ Visited(game, lastOp'.pos)) =>
              resp' = MoveResponse(FALSE, "collision")]_vars

\* A move to a position on another exploration's path was answered collision.
C1_Witness ==
    /\ IsMove(lastOp)
    /\ resp = MoveResponse(FALSE, "collision")
    /\ \E n \in DOMAIN game.Explorations :
          /\ n # lastOp.name
          /\ InPath(game.Explorations[n].PathPositions, lastOp.pos)

(***************************************************************************)
(* C2.  The collision check and the visited mark of a move are atomic with *)
(* respect to other moves: of two moves with different names to the same   *)
(* walkable target at most one is answered something other than collision, *)
(* and the target is on the path of at most one exploration.  (Stated for  *)
(* runs that served no reset, which alone makes a position free again.)    *)
(***************************************************************************)
NoResetLogged == \A i \in 1..Len(calls) : calls[i].op # "reset"

DoneMove(h) == pc[h] = "done" /\ req[h].op = "move"

OnPathOf(g, p) == {n \in DOMAIN g.Explorations : InPath(g.Explorations[n].PathPositions, p)}

C2_CheckAndMarkAtomic ==
    NoResetLogged =>
        /\ \A h \in Handlers, k \in Handlers :
              (/\ DoneMove(h)
               /\ DoneMove(k)
               /\ req[h].name # req[k].name
               /\ req[h].pos = req[k].pos
               /\ Walkable(game, req[h].pos)) =>
                  \/ loc[h].ret.NewStatus = "collision"
                  \/ loc[k].ret.NewStatus = "collision"
        /\ \A p \in ConcTargets : Cardinality(OnPathOf(game, p)) <= 1

(***************************************************************************)
(* C3.  Mutations serialise: once a reset and a move, the only two         *)
(* requests of a run, have both been served, the game is the one a serial  *)
(* order leaves: the empty forest, or the effect of the move on the empty  *)
(* forest.  In particular every visited position is on a path.             *)
(***************************************************************************)
Quiescent == \A h \in Handlers : pc[h] \in {"idle", "done"}

C3_ResetAndMoveSerialise ==
    \A i \in {1, 2} :
        (/\ Quiescent
         /\ Len(calls) = 2
         /\ calls[i].op = "reset"
         /\ calls[3 - i].op = "move") =>
            \/ game = ResetGame(game)
            \/ game = moveExploration(ResetGame(game), calls[3 - i].name,
                                      calls[3 - i].pos).game

(***************************************************************************)
(* C4.  A reader never sees half a move: whenever the tree handler is      *)
(* about to read the game, the current position of every exploration is    *)
(* the last position of its path and is visited.                           *)
(***************************************************************************)
Last(seq) == seq[Len(seq)]

ReadPoint(h) == pc[h] = "t_stats" \/ (pc[h] = "t_encode" /\ loc[h].attached)

C4_ReadersSeeWholeMoves ==
    (\E h \in Handlers : ReadPoint(h)) =>
        \A n \in DOMAIN game.Explorations :
            /\ game.Explorations[n].CurrentPosition
                  = Last(game.Explorations[n].PathPositions)
            /\ Visited(game, game.Explorations[n].CurrentPosition)

(***************************************************************************)
(* C5.  A move to a wall or outside the grid is answered blocked, a move   *)
(* to a walkable visited position is answered collision; both have         *)
(* Success = false and leave the whole game unchanged, for known and       *)
(* unknown names.                                                          *)
(***************************************************************************)
C5_RejectedMoveChangesNothing ==
    [][IsMove(lastOp') =>
          LET p == lastOp'.pos
          IN  /\ ~Walkable(game, p) =>
                    resp' = MoveResponse(FALSE, "blocked") /\ game' = game
              /\ Walkable(game, p) /\ Visited(game, p) =>
                    resp' = MoveResponse(FALSE, "collision") /\ game' = game]_vars

\* A known exploration was refused a wall cell of the grid.
C5_Witness ==
    /\ IsMove(lastOp)
    /\ resp = MoveResponse(FALSE, "blocked")
    /\ Known(game, lastOp.name)
    /\ InGrid(game, lastOp.pos)

(***************************************************************************)
(* C6.  A complete exploration is immutable: every later move naming it    *)
(* is rejected and changes neither the exploration nor the visited set.    *)
(***************************************************************************)
C6_CompleteIsImmutable ==
    [][IsMove(lastOp') =>
          LET n == lastOp'.name
          IN  (Known(game, n) /\ game.Explorations[n].IsComplete) =>
                  /\ resp'.Success = FALSE
                  /\ Known(game', n)
                  /\ game'.Explorations[n] = game.Explorations[n]
                  /\ game'.GlobalVisitedPositions = game.GlobalVisitedPositions]_vars

(***************************************************************************)
(* C7.  Every exploration is in exactly one of the states Active,          *)
(* Complete+Dead and Complete+FoundGoal; in particular IsDead and          *)
(* FoundGoal are never both true.                                          *)
(***************************************************************************)
StateActive(e) == e.IsActive /\ ~e.IsComplete /\ ~e.IsDead /\ ~e.FoundGoal

StateDead(e) == ~e.IsActive /\ e.IsComplete /\ e.IsDead /\ ~e.FoundGoal

StateFoundGoal(e) == ~e.IsActive /\ e.IsComplete /\ ~e.IsDead /\ e.FoundGoal

C7_OneStatePerExploration ==
    \A n \in DOMAIN game.Explorations :
        LET e == game.Explorations[n]
        IN  StateActive(e) \/ StateDead(e) \/ StateFoundGoal(e)

(***************************************************************************)
(* C8.  A move of an unknown name to a walkable unvisited target creates   *)
(* the exploration with start = current = target, path <<target>>,         *)
(* generation 0 and no parent, and marks the target visited; the answer is *)
(* goal_reached at the Goal and continue anywhere else, however many       *)
(* moves are available from the target.                                    *)
(***************************************************************************)
\* What the move leaves behind, but for the status flags.
Created(g, n, p) ==
    /\ Known(g, n)
    /\ g.Explorations[n].ID = n
    /\ g.Explorations[n].StartPosition = p
    /\ g.Explorations[n].CurrentPosition = p
    /\ g.Explorations[n].PathPositions = <<p>>
    /\ g.Explorations[n].Generation = 0
    /\ g.Explorations[n].ParentID = Nil
    /\ g.Explorations[n].ChildIDs = << >>
    /\ ~g.Explorations[n].IsDead
    /\ Visited(g, p)

CreatedAtGoal(g, n) ==
    /\ g.Explorations[n].FoundGoal
    /\ g.Explorations[n].IsComplete
    /\ g.GoalFound
    /\ g.WinningExploration = n

CreatedElsewhere(g0, g, n) ==
    /\ ~g.Explorations[n].FoundGoal
    /\ ~g.Explorations[n].IsComplete
    /\ g.GoalFound = g0.GoalFound
    /\ g.WinningExploration = g0.WinningExploration

\* The step serves a move of an unknown name to a walkable unvisited target.
CreatingMove ==
    /\ IsMove(lastOp')
    /\ ~Known(game, lastOp'.name)
    /\ Walkable(game, lastOp'.pos)
    /\ ~Visited(game, lastOp'.pos)

\* C8 as stated: the exploration is active after the move, at the
\* Goal too.
C8_CreateAlwaysActive ==
    [][CreatingMove =>
          LET n == lastOp'.name
              p == lastOp'.pos
          IN  /\ Created(game', n, p)
              /\ game'.Explorations[n].IsActive
              /\ IF p = game.Goal
                 THEN resp' = MoveResponse(TRUE, "goal_reached") /\ CreatedAtGoal(game', n)
                 ELSE resp' = MoveResponse(TRUE, "continue")
                      /\ CreatedElsewhere(game, game', n)]_vars

\* C8 as amended: the exploration is active unless the target is the Goal
\* (there FoundGoal and IsComplete are set and IsActive is cleared).
C8_CreateExploration ==
    [][CreatingMove =>
          LET n == lastOp'.name
              p == lastOp'.pos
          IN  /\ Created(game', n, p)
              /\ game'.Explorations[n].IsActive = (p # game.Goal)
              /\ IF p = game.Goal
                 THEN resp' = MoveResponse(TRUE, "goal_reached") /\ CreatedAtGoal(game', n)
                 ELSE resp' = MoveResponse(TRUE, "continue")
                      /\ CreatedElsewhere(game, game', n)]_vars

\* An exploration was just created on a cell with no available move, next
\* to the path of another one, and the answer was continue.
C8_Witness ==
    /\ IsMove(lastOp)
    /\ resp = MoveResponse(TRUE, "continue")
    /\ Known(game, lastOp.name)
    /\ game.Explorations[lastOp.name].PathPositions = <<lastOp.pos>>
    /\ FreeNeighbours(game, lastOp.pos) = 0
    /\ Cardinality(DOMAIN game.Explorations) = 2

(***************************************************************************)
(* C9.  The duplicate first move: move("root", (1,1)) when root exists     *)
(* with start cell (1,1) and a path of length 1.                           *)
(***************************************************************************)
DuplicateFirstMove ==
    /\ lastOp' = [op |-> "move", name |-> "root", pos |-> Pos(1, 1)]
    /\ Known(game, "root")
    /\ game.Explorations["root"].StartPosition = Pos(1, 1)
    /\ Len(game.Explorations["root"].PathPositions) = 1

C10_KnownMoveToGoal ==
    [][(/\ IsMove(lastOp')
        /\ lastOp'.pos = game.Goal
        /\ Known(game, lastOp'.name)
        /\ Walkable(game, game.Goal)
        /\ ~Visited(game, game.Goal)) =>
          LET n == lastOp'.name
              p == lastOp'.pos
          IN  /\ resp' = MoveResponse(TRUE, "goal_reached")
              /\ game'.Explorations[n].PathPositions
                    = Append(game.Explorations[n].PathPositions, p)
              /\ game'.Explorations[n].CurrentPosition = p
              /\ game'.GlobalVisitedPositions = game.GlobalVisitedPositions \cup {p}
              /\ game'.Explorations[n].FoundGoal
              /\ game'.Explorations[n].IsComplete
              /\ ~game'.Explorations[n].IsActive
              /\ game'.GoalFound
              /\ game'.WinningExploration = n]_vars

\* An exploration that started elsewhere has stepped onto the Goal.
C10_Witness ==
    /\ IsMove(lastOp)
    /\ resp = MoveResponse(TRUE, "goal_reached")
    /\ lastOp.pos = game.Goal
    /\ Len(game.Explorations[lastOp.name].PathPositions) > 1
    /\ game.WinningExploration = lastOp.name

(***************************************************************************)
(* C11.  A move of a known name to a walkable, unvisited position other    *)
(* than the Goal is answered dead_end exactly when the target has no       *)
(* available move once it is marked visited (the exploration then has      *)
(* IsDead and IsComplete set and IsActive cleared), junction exactly when  *)
(* it has more than one, and continue exactly when it has exactly one      *)
(* (the three flags unchanged for junction and continue).                  *)
(***************************************************************************)
\* The flags the dead-end branch writes.
DeadFlags(e) == <<e.IsDead, e.IsComplete, e.IsActive>>

\* A known name is moved to a walkable, unvisited position that is not the Goal.
KnownMoveOffGoal ==
    /\ IsMove(lastOp')
    /\ Known(game, lastOp'.name)
    /\ Walkable(game, lastOp'.pos)
    /\ ~Visited(game, lastOp'.pos)
    /\ lastOp'.pos # game.Goal

C11_KnownMoveClassified ==
    [][KnownMoveOffGoal =>
          LET n == lastOp'.name
              free == FreeNeighbours(game, lastOp'.pos)
              e0 == game.Explorations[n]
              e1 == game'.Explorations[n]
          IN  /\ resp'.Success
              /\ resp'.NewStatus = "dead_end" <=> free = 0
              /\ resp'.NewStatus = "junction" <=> free > 1
              /\ resp'.NewStatus = "continue" <=> free = 1
              /\ free = 0 => DeadFlags(e1) = <<TRUE, TRUE, FALSE>>
              /\ free > 0 => DeadFlags(e1) = DeadFlags(e0)]_vars

(***************************************************************************)
(* C12.  No double visit: in every state reached by moves and resets, no   *)
(* position is on the paths of two different explorations and no position  *)
(* is twice on the path of one exploration.                                *)
(***************************************************************************)
\* No position occurs at two indices of path.
NoRepeat(path) ==
    \A i, j \in 1..Len(path) : path[i] = path[j] => i = j

\* The set of positions on path.
Cells(path) == {path[i] : i \in 1..Len(path)}

C12_NoDoubleVisit ==
    \A n \in DOMAIN game.Explorations :
        /\ NoRepeat(game.Explorations[n].PathPositions)
        /\ \A m \in DOMAIN game.Explorations \ {n} :
              Cells(game.Explorations[n].PathPositions)
                  \cap Cells(game.Explorations[m].PathPositions) = {}

\* Two explorations hold paths, one of them more than one position long.
C12_Witness ==
    \E n, m \in DOMAIN game.Explorations :
        /\ n # m
        /\ Len(game.Explorations[n].PathPositions) > 1
        /\ Len(game.Explorations[m].PathPositions) > 0

(***************************************************************************)
(* C13.  For every position p, a wall or a position outside the grid       *)
(* included, the AvailableMoves of the status of p are exactly the         *)
(* directions d for which p+d is inside the grid, not a wall and not       *)
(* visited, each paired with the target p+d; IsJunction is true exactly    *)
(* when there is more than one of them.                                    *)
(***************************************************************************)
IsQuery(op) == op.op = "status"

\* The moves the claim expects from p.
ExpectedMoves(g, p) ==
    {[Direction |-> d, TargetPosition |-> Add(p, d)] :
        d \in {d \in {UP, DOWN, LEFT, RIGHT} :
                  /\ InGrid(g, Add(p, d))
                  /\ g.Maze[Add(p, d).Y][Add(p, d).X] # WALL
                  /\ ~Visited(g, Add(p, d))}}

C13_AvailableMoves ==
    IsQuery(lastOp) =>
        LET expected == ExpectedMoves(game, lastOp.pos)
        IN  /\ Cells(resp.AvailableMoves) = expected
            /\ Len(resp.AvailableMoves) = Cardinality(expected)
            /\ resp.IsJunction <=> Cardinality(expected) > 1

\* The status of the wall (2,2) was asked while one of the cells next to it
\* is visited and two others are still free.
C13_Witness ==
    /\ IsQuery(lastOp)
    /\ lastOp.pos = Pos(2, 2)
    /\ \E d \in {UP, DOWN, LEFT, RIGHT} : Visited(game, Add(lastOp.pos, d))
    /\ Len(resp.AvailableMoves) = 2
    /\ resp.IsJunction

(***************************************************************************)
(* C14.  Asking for the status of a position has no side effect and is     *)
(* idempotent: it leaves the grid, the explorations, the visited set,      *)
(* GoalFound, WinningExploration and the colour counter as they were, and  *)
(* asking again for the same position, with nothing changed in between,    *)
(* gives the same answer.                                                  *)
(***************************************************************************)
C14_StatusReadOnly ==
    [][IsQuery(lastOp') =>
          /\ game'.Maze = game.Maze
          /\ game'.Explorations = game.Explorations
          /\ game'.GlobalVisitedPositions = game.GlobalVisitedPositions
          /\ game'.GoalFound = game.GoalFound
          /\ game'.WinningExploration = game.WinningExploration
          /\ game'.NextExplorationID = game.NextExplorationID
          /\ (IsQuery(lastOp) /\ lastOp'.pos = lastOp.pos) => resp' = resp]_vars

\* The status of a visited position was asked while explorations exist.
C14_Witness ==
    /\ IsQuery(lastOp)
    /\ resp.IsExplored
    /\ DOMAIN game.Explorations # {}
    /\ game.NextExplorationID > 0

(***************************************************************************)
(* C15.  After any moves, a reset followed by a snapshot reports no        *)
(* exploration, no active exploration, no visited position and GoalFound   *)
(* false; the reset also clears WinningExploration, sets the colour        *)
(* counter to 0 and leaves the grid, Start and Goal as they were.          *)
(***************************************************************************)
IsReset(op) == op.op = "reset"

IsSnapshot(op) == op.op = "tree"

C16_VisitedNeverShrinks ==
    [][game'.Maze = game.Maze =>
          game.GlobalVisitedPositions \subseteq game'.GlobalVisitedPositions]_vars

\* C16 as amended: a reset empties the visited set and leaves the grid; every
\* other operation removes nothing from the set and adds at most the target
\* of an accepted move, and no move to a position of the set is accepted.
C16_VisitedGrowsUntilReset ==
    [][/\ IsReset(lastOp') =>
            game'.GlobalVisitedPositions = {} /\ game'.Maze = game.Maze
       /\ ~IsReset(lastOp') =>
            /\ game.GlobalVisitedPositions \subseteq game'.GlobalVisitedPositions
            /\ game'.GlobalVisitedPositions \ game.GlobalVisitedPositions
                  \subseteq IF IsMove(lastOp') /\ resp'.Success
                            THEN {lastOp'.pos} ELSE {}
       /\ (IsMove(lastOp') /\ Visited(game, lastOp'.pos)) => ~resp'.Success]_vars

\* A move was accepted while another position was visited already: the
\* visited set holds both.
C16_Witness ==
    /\ IsMove(lastOp)
    /\ resp.Success
    /\ Cardinality(game.GlobalVisitedPositions) > 1
    /\ lastOp.pos \in game.GlobalVisitedPositions

(***************************************************************************)
(* C17.  The k-th exploration created since the last reset, k counted      *)
(* from 0, gets the colour index k mod 6; the counter advances by exactly  *)
(* one when a new name is created and by nothing else; and no later move   *)
(* changes the colour index, ID, StartPosition, Generation or ParentID of  *)
(* an exploration.                                                         *)
(***************************************************************************)
\* The fields of an exploration that are fixed at its creation.
Identity(e) ==
    <<e.FixedColorIndex, e.ID, e.StartPosition, e.Generation, e.ParentID>>

\* The step serves a move that puts a new name into the map.
NewName ==
    IsMove(lastOp') /\ ~Known(game, lastOp'.name) /\ Known(game', lastOp'.name)

C17_ColorIndex ==
    [][/\ NewName =>
            /\ game'.Explorations[lastOp'.name].FixedColorIndex
                  = Cardinality(DOMAIN game.Explorations) % 6
            /\ game'.NextExplorationID = game.NextExplorationID + 1
       /\ (~NewName /\ ~IsReset(lastOp')) =>
            game'.NextExplorationID = game.NextExplorationID
       /\ IsMove(lastOp') =>
            \A m \in DOMAIN game.Explorations :
                /\ Known(game', m)
                /\ Identity(game'.Explorations[m]) = Identity(game.Explorations[m])]_vars

\* The seventh exploration since the reset has been created: its colour
\* index is 0 again.
C17_Witness ==
    /\ IsMove(lastOp)
    /\ resp.Success
    /\ Cardinality(DOMAIN game.Explorations) = 7
    /\ Len(game.Explorations[lastOp.name].PathPositions) = 1
    /\ lastOp.name # "root"
    /\ game.Explorations[lastOp.name].FixedColorIndex = 0

(***************************************************************************)
(* C18.  In every state a snapshot reports as total the number of entries  *)
(* of the explorations map, as active count the number of explorations     *)
(* with IsActive, the GoalFound flag of the game and as visited count the  *)
(* number of visited positions; the snapshot changes no state.             *)
(***************************************************************************)
ActiveNames(g) == {n \in DOMAIN g.Explorations : g.Explorations[n].IsActive}

C18_SnapshotStats ==
    [][IsSnapshot(lastOp') =>
          /\ game' = game
          /\ resp'.Explorations = game.Explorations
          /\ resp'.GlobalStats.TotalExplorations = Cardinality(DOMAIN game.Explorations)
          /\ resp'.GlobalStats.ActiveExplorations = Cardinality(ActiveNames(game))
          /\ resp'.GlobalStats.GoalFound = game.GoalFound
          /\ resp'.GlobalStats.VisitedPositions
                = Cardinality(game.GlobalVisitedPositions)]_vars

\* A snapshot of two explorations, one of them active and the other on the
\* Goal.
C18_Witness ==
    /\ IsSnapshot(lastOp)
    /\ resp.GlobalStats.TotalExplorations = 2
    /\ resp.GlobalStats.ActiveExplorations = 1
    /\ resp.GlobalStats.GoalFound
    /\ resp.GlobalStats.VisitedPositions > 1

(***************************************************************************)
(* C19.  The path of every exploration is append-only and runs from start  *)
(* to current: in every reachable state its first element is               *)
(* StartPosition and its last element is CurrentPosition, and every move   *)
(* leaves the path as it was or appends exactly the target as its new      *)
(* last element.                                                           *)
(***************************************************************************)
StartToCurrent(e) ==
    /\ Len(e.PathPositions) > 0
    /\ e.PathPositions[1] = e.StartPosition
    /\ e.PathPositions[Len(e.PathPositions)] = e.CurrentPosition

C19_PathAppendOnly ==
    [][/\ \A n \in DOMAIN game'.Explorations : StartToCurrent(game'.Explorations[n])
       /\ IsMove(lastOp') =>
            \A m \in DOMAIN game.Explorations :
                /\ Known(game', m)
                /\ \/ game'.Explorations[m].PathPositions
                          = game.Explorations[m].PathPositions
                   \/ /\ m = lastOp'.name
                      /\ game'.Explorations[m].PathPositions
                            = Append(game.Explorations[m].PathPositions, lastOp'.pos)]_vars

\* An exploration has stepped from its start to a second position while
\* another one kept its path.
C19_Witness ==
    /\ IsMove(lastOp)
    /\ resp.Success
    /\ Known(game, lastOp.name)
    /\ Len(game.Explorations[lastOp.name].PathPositions) = 2
    /\ game.Explorations[lastOp.name].CurrentPosition = lastOp.pos
    /\ game.Explorations[lastOp.name].StartPosition # lastOp.pos
    /\ Cardinality(DOMAIN game.Explorations) = 2

(***************************************************************************)
(* C20.  Moves of two different new names to two different walkable,       *)
(* unvisited positions (the two branches spawned from a junction) both     *)
(* succeed, in either order: neither is answered collision or blocked      *)
(* because of the other.                                                   *)
(***************************************************************************)
\* The names no exploration carries, and the positions a move can enter.
FreshNames(g) == {ColorNames[i] : i \in Unused(g)}

FreeCells(g) == {p \in InnerTargets : Walkable(g, p) /\ ~Visited(g, p)}

C20_BranchesIndependent ==
    \A n1, n2 \in FreshNames(game) :
        \A p1, p2 \in FreeCells(game) :
            (n1 # n2 /\ p1 # p2) =>
                LET first == moveExploration(game, n1, p1)
                    second == moveExploration(first.game, n2, p2)
                IN  /\ first.resp.Success
                    /\ second.resp.Success
                    /\ Known(second.game, n1)
                    /\ Known(second.game, n2)

\* Position p is one step from position q.
Adjacent(p, q) == \E d \in {UP, DOWN, LEFT, RIGHT} : Add(p, d) = q

\* Two new explorations stand on two cells next to the cell of a third,
\* the later one just accepted.
C20_Witness ==
    /\ IsMove(lastOp)
    /\ resp.Success
    /\ \E x, b \in DOMAIN game.Explorations :
          /\ Cardinality({x, b, lastOp.name}) = 3
          /\ Len(game.Explorations[b].PathPositions) = 1
          /\ Len(game.Explorations[lastOp.name].PathPositions) = 1
          /\ game.Explorations[lastOp.name].CurrentPosition = lastOp.pos
          /\ Adjacent(game.Explorations[x].CurrentPosition, lastOp.pos)
          /\ Adjacent(game.Explorations[x].CurrentPosition,
                      game.Explorations[b].CurrentPosition)

(***************************************************************************)
(* C21.  The classifier applies its rules in priority order: an            *)
(* exploration that found the goal gets the winner class (weight 3,        *)
(* opacity 1.0, priority 10) even if it is dead or has children;           *)
(* otherwise a dead exploration without children gets the dead class       *)
(* (weight 2, opacity 0.5, priority 2); otherwise an exploration without   *)
(* children gets the palette entry of its colour index mod 6 (weight 2,    *)
(* opacity 0.9, priority 5); and classifying changes nothing in the game.  *)
(***************************************************************************)
IsClassify(op) == op.op = "classify"

\* The explorations whose parent is id.
Children(g, id) == {n \in DOMAIN g.Explorations : g.Explorations[n].ParentID = id}

WinnerClass == [Color |-> <<255, 109, 0, 255>>, LineWidth |-> 3, Opacity |-> 10, Priority |-> 10]

DeadClass == [Color |-> <<158, 158, 158, 255>>, LineWidth |-> 2, Opacity |-> 5, Priority |-> 2]

\* The class of the exploration's own colour index.
OwnClass(e) ==
    [Color |-> segmentColors[(e.FixedColorIndex % 6) + 1],
     LineWidth |-> 2, Opacity |-> 9, Priority |-> 5]

C21_ClassifierPriorities ==
    [][IsClassify(lastOp') =>
          LET e == game.Explorations[lastOp'.name]
              kids == Children(game, e.ID)
          IN  /\ e.FoundGoal => resp' = WinnerClass
              /\ ~e.FoundGoal /\ e.IsDead /\ kids = {} => resp' = DeadClass
              /\ ~e.FoundGoal /\ ~e.IsDead /\ kids = {} => resp' = OwnClass(e)
              /\ game' = game]_vars

\* A dead exploration that found the goal and has children was classified
\* as winner.
C21_Witness ==
    /\ IsClassify(lastOp)
    /\ game.Explorations[lastOp.name].FoundGoal
    /\ game.Explorations[lastOp.name].IsDead
    /\ Children(game, lastOp.name) # {}
    /\ resp = WinnerClass

(***************************************************************************)
(* C22.  An exploration with children that did not find the goal is        *)
(* classified from the classes the classifier returns for its direct       *)
(* children: when these are all one class, the exploration gets that       *)
(* class (so the root of a 3-level tree gets the colour its leaves share). *)
(***************************************************************************)
\* The class the classifier returns for exploration n of g.
Resolved(g, n) == getExplorationDisplayColorAndStyle(g, n, SegmentIDs).resp

C22_InheritsResolvedClass ==
    [][IsClassify(lastOp') =>
          LET e == game.Explorations[lastOp'.name]
              kids == Children(game, e.ID)
          IN  ~e.FoundGoal =>
                \A k \in kids :
                    (\A m \in kids : Resolved(game, m) = Resolved(game, k))
                        => resp' = Resolved(game, k)]_vars

(***************************************************************************)
(* C23.  When the direct children of an exploration that did not find the  *)
(* goal resolve to two or more distinct classes, the exploration gets the  *)
(* class of its own colour index mod 6: no child's class, and not the      *)
(* dead class even if it is dead.                                          *)
(***************************************************************************)
C23_DisagreeingChildren ==
    [][IsClassify(lastOp') =>
          LET e == game.Explorations[lastOp'.name]
              kids == Children(game, e.ID)
          IN  /\ ~e.FoundGoal
              /\ \E k, m \in kids : Resolved(game, k) # Resolved(game, m)
              => resp' = OwnClass(e)]_vars

(***************************************************************************)
(* C24.  For every width and height of at least 3 and every seed,          *)
(* generateMaze completes and returns a grid; it never aborts the process  *)
(* (no random bound out of range, no grid index out of range).             *)
(***************************************************************************)
C24_GenerateNeverAborts == gen.pc # "panic"

(***************************************************************************)
(* C25.  Every grid generateMaze produces, for every width and height of   *)
(* at least 3 and every sequence of random choices, has exactly one Start  *)
(* cell, at (1,1), and exactly one Goal cell.                              *)
(***************************************************************************)
\* generateMaze has returned.
Generated == gen.pc = "done"

\* The positions of the grid of g that hold cell.
CellsOf(g, cell) ==
    {p \in {Pos(x, y) : x \in 0..(g.Width - 1), y \in 0..(g.Height - 1)} :
        g.Maze[p.Y][p.X] = cell}

C25_OneStartOneGoal ==
    Generated =>
        /\ CellsOf(game, START) = {Pos(1, 1)}
        /\ Cardinality(CellsOf(game, GOAL)) = 1

(***************************************************************************)
(* C26.  In every grid generateMaze produces, every cell of the outer      *)
(* border (x = 0, x = width-1, y = 0 or y = height-1) is WALL, whatever    *)
(* the carving and the loop-opening pass chose.                            *)
(***************************************************************************)
Border(g) ==
    {p \in {Pos(x, y) : x \in 0..(g.Width - 1), y \in 0..(g.Height - 1)} :
        p.X = 0 \/ p.X = g.Width - 1 \/ p.Y = 0 \/ p.Y = g.Height - 1}

C26_BorderIsWall ==
    Generated => \A p \in Border(game) : game.Maze[p.Y][p.X] = WALL

\* A grid was produced whose loop-opening pass turned a wall into PATH.
C26_Witness ==
    /\ Generated
    /\ gen.i > 0
    /\ \E p \in CellsOf(game, PATH) : p.X % 2 = 0 /\ p.Y % 2 = 0

(***************************************************************************)
(* C27.  The Goal generateMaze chooses is a lattice cell (odd x, odd y)    *)
(* of type PATH whose Manhattan distance from (1,1) is the largest of all  *)
(* lattice cells of type PATH, and among the cells at that distance it is  *)
(* the first in row-major order.                                           *)
(***************************************************************************)
\* The lattice cells of type PATH.
LatticePaths(g) == {p \in CellsOf(g, PATH) : p.X % 2 = 1 /\ p.Y % 2 = 1}

Manhattan(p) ==
    (IF p.X < 1 THEN 1 - p.X ELSE p.X - 1) + (IF p.Y < 1 THEN 1 - p.Y ELSE p.Y - 1)

\* p is scanned no later than q.
NoLater(p, q) == p.Y < q.Y \/ (p.Y = q.Y /\ p.X <= q.X)

\* The goal scan has finished and the goal is not marked yet.
Scanned == gen.pc = "goal"

C27_GoalIsFarthest ==
    /\ Scanned =>
          /\ gen.bestGoal \in LatticePaths(game)
          /\ \A p \in LatticePaths(game) :
                /\ Manhattan(p) <= Manhattan(gen.bestGoal)
                /\ Manhattan(p) = Manhattan(gen.bestGoal) => NoLater(gen.bestGoal, p)
    /\ Generated =>
          /\ game.Goal = gen.bestGoal
          /\ game.Maze[game.Goal.Y][game.Goal.X] = GOAL

LatticeCells(g) ==
    {Pos(x, y) : x \in {v \in 1..(g.Width - 2) : v % 2 = 1},
                 y \in {v \in 1..(g.Height - 2) : v % 2 = 1}}

\* The walkable cells that are not lattice cells.
Connections(g) ==
    {p \in {Pos(x, y) : x \in 0..(g.Width - 1), y \in 0..(g.Height - 1)} :
        Walkable(g, p) /\ p \notin LatticeCells(g)}

\* The cells reached from the cells of `from` over walkable cells.
RECURSIVE Routes(_, _)
Routes(g, from) ==
    LET more == {q \in {Add(p, d) : p \in from, d \in {UP, DOWN, LEFT, RIGHT}} :
                    Walkable(g, q) /\ q \notin from}
    IN  IF more = {} THEN from ELSE Routes(g, from \cup more)

\* The carving loop has ended and the loop-opening pass has not begun.
Carved == gen.pc = "loop" /\ gen.i = 0

C29_CarvingSpansLattice ==
    Carved =>
        /\ gen.visited = LatticeCells(game)
        /\ Cardinality(Connections(game)) = Cardinality(LatticeCells(game)) - 1
        /\ LatticeCells(game) \subseteq Routes(game, {Pos(1, 1)})

\* The carving of a grid at least three lattice cells wide and high has ended.
C29_Witness ==
    /\ Carved
    /\ game.Width >= 7 /\ game.Height >= 7

(***************************************************************************)
(* C30.  The carving loop terminates for every grid size and every         *)
(* sequence of choices: eventually the loop has ended with the stack       *)
(* empty, every lattice cell having been pushed exactly once and popped    *)
(* exactly once.                                                           *)
(***************************************************************************)
\* Every lattice cell of g occurs exactly once in the sequence.
OnceEach(g, cells) ==
    /\ Len(cells) = Cardinality(LatticeCells(g))
    /\ {cells[k] : k \in 1..Len(cells)} = LatticeCells(g)

\* The carving loop has been left.
CarveEnded ==
    /\ gen.pc \notin {"round", "walls", "lattice", "carve"}
    /\ gen.stack = << >>
    /\ OnceEach(game, gen.pushed)
    /\ OnceEach(game, gen.popped)

C30_CarvingTerminates == <>CarveEnded

\* The loop has been left on a grid of nine lattice cells or more.
C30_Witness ==
    /\ CarveEnded
    /\ Len(gen.popped) >= 9

(***************************************************************************)
(* C31.  In each iteration of the loop-opening pass the picked cell is a   *)
(* lattice cell (odd x, odd y, inside the border); it becomes PATH exactly *)
(* when one of its four adjacent cells is PATH, and no other cell changes; *)
(* a pass that is over has run floor(width * height / 30) iterations.      *)
(***************************************************************************)
\* This step is an iteration of the loop-opening pass that ran to its end.
Opened == gen.pc = "loop_y" /\ gen'.pc = "loop"

\* A cell next to p is PATH in g.
NextToPath(g, p) ==
    \E d \in {UP, DOWN, LEFT, RIGHT} :
        InGrid(g, Add(p, d)) /\ g.Maze[Add(p, d).Y][Add(p, d).X] = PATH

\* The cells of g and the cells of the next grid differ at most at p, which is
\* PATH afterwards exactly when it was next to a PATH cell.
OpensOnly(p) ==
    /\ InGrid(game, p)
    /\ game'.Maze[p.Y][p.X] = PATH <=> NextToPath(game, p)
    /\ \A q \in {Pos(x, y) : x \in 0..(game.Width - 1), y \in 0..(game.Height - 1)} :
          q # p => game'.Maze[q.Y][q.X] = game.Maze[q.Y][q.X]

\* The loop-opening pass is over.
PassOver == gen.pc \in {"start", "scan", "goal", "done"}

C31_OpensLatticeCell ==
    [][/\ Opened =>
            LET p == Pos(gen'.x, gen'.y)
            IN  /\ p.X % 2 = 1 /\ p.Y % 2 = 1
                /\ p.X >= 1 /\ p.X <= game.Width - 2
                /\ p.Y >= 1 /\ p.Y <= game.Height - 2
                /\ OpensOnly(p)
       /\ PassOver' => gen'.i = (game'.Width * game'.Height) \div 30]_vars

\* C31 as amended: the picked cell has even x and even y, from 2 to
\* width - 5 and from 2 to height - 5; an iteration whose random bound is not
\* positive aborts and is no iteration that ran to its end.
C31_OpensPillarCell ==
    [][/\ Opened =>
            LET p == Pos(gen'.x, gen'.y)
            IN  /\ p.X % 2 = 0 /\ p.Y % 2 = 0
                /\ p.X >= 2 /\ p.X <= game.Width - 5
                /\ p.Y >= 2 /\ p.Y <= game.Height - 5
                /\ OpensOnly(p)
                /\ gen'.i = gen.i + 1
       /\ PassOver' => gen'.i = (game'.Width * game'.Height) \div 30]_vars

\* An iteration has just made the picked cell PATH, on a grid where the pass
\* has more than one cell to pick from.
C31_Witness ==
    /\ gen.pc = "loop" /\ gen.i > 0
    /\ game.Maze[gen.y][gen.x] = PATH
    /\ game.Width >= 9

(***************************************************************************)
(* C32.  In src/unnamed/part_000 a move of an unknown name to a walkable,  *)
(* unvisited target, the move of "root" to (1,1) aside, creates an         *)
(* exploration whose path is the one position <<target>>.                  *)
(***************************************************************************)
C32_PartCreatesPathOfOne ==
    [][/\ IsMove(lastOp')
       /\ ~Known(game, lastOp'.name)
       /\ ~(lastOp'.name = "root" /\ lastOp'.pos = Pos(1, 1))
       /\ Walkable(game, lastOp'.pos)
       /\ ~Visited(game, lastOp'.pos)
       => /\ Known(game', lastOp'.name)
          /\ game'.Explorations[lastOp'.name].PathPositions = <<lastOp'.pos>>]_vars

(***************************************************************************)
(* C33.  A move that returns success adds exactly one position, its        *)
(* target, to the visited set, and a move that fails adds none; the        *)
(* visited positions are walkable cells, so between two resets the         *)
(* successful moves number at most the walkable cells, and once every      *)
(* walkable cell is visited every move returns blocked or collision.       *)
(***************************************************************************)
WalkableCells(g) == {p \in InnerTargets : Walkable(g, p)}

C33_OneCellPerSuccess ==
    [][IsMove(lastOp') =>
          /\ resp'.Success =>
                /\ ~Visited(game, lastOp'.pos)
                /\ game'.GlobalVisitedPositions =
                        game.GlobalVisitedPositions \cup {lastOp'.pos}
          /\ ~resp'.Success =>
                game'.GlobalVisitedPositions = game.GlobalVisitedPositions
          /\ game'.GlobalVisitedPositions \subseteq WalkableCells(game')
          /\ WalkableCells(game) \subseteq game.GlobalVisitedPositions =>
                /\ ~resp'.Success
                /\ resp'.NewStatus \in {"blocked", "collision"}]_vars

\* Every walkable cell is visited and a move to one of them was refused.
C33_Witness ==
    /\ game.GlobalVisitedPositions = WalkableCells(game)
    /\ IsMove(lastOp)
    /\ Walkable(game, lastOp.pos)
    /\ ~resp.Success
    /\ resp.NewStatus = "collision"

(***************************************************************************)
(* C34.  In every state reached by moves and resets the visited set is the *)
(* union of the paths: every visited position is on the path of some       *)
(* exploration, and every position on a path is visited.                   *)
(***************************************************************************)
\* The positions on the paths of the explorations of g.
OnPaths(g) == UNION {Cells(g.Explorations[n].PathPositions) : n \in DOMAIN g.Explorations}

C34_VisitedIsUnionOfPaths == game.GlobalVisitedPositions = OnPaths(game)

(***************************************************************************)
(* C35.  In every reachable state any two consecutive positions on the     *)
(* path of an exploration are orthogonally adjacent cells: a move is       *)
(* accepted only to a cell next to the exploration's current position.     *)
(***************************************************************************)
\* Each position of the path is one step from the one before it.
Stepwise(path) == \A i \in 1..(Len(path) - 1) : Adjacent(path[i], path[i + 1])

C35_PathsAreStepwise ==
    \A n \in DOMAIN game.Explorations : Stepwise(game.Explorations[n].PathPositions)

(***************************************************************************)
(* C36.  With moves and resets served one at a time, at most one           *)
(* exploration has FoundGoal; GoalFound is true exactly when there is one, *)
(* and WinningExploration is then its name; until the next reset           *)
(* GoalFound does not return to false and WinningExploration does not      *)
(* change once set.                                                        *)
(***************************************************************************)
\* The explorations of g that found the goal.
Winners(g) == {n \in DOMAIN g.Explorations : g.Explorations[n].FoundGoal}

OneWinner(g) ==
    /\ Cardinality(Winners(g)) <= 1
    /\ g.GoalFound <=> Winners(g) # {}
    /\ g.GoalFound => g.WinningExploration \in Winners(g)
    /\ ~g.GoalFound => g.WinningExploration = Nil

C36_SingleWinner ==
    [][/\ OneWinner(game')
       /\ game.GoalFound /\ ~IsReset(lastOp') =>
            /\ game'.GoalFound
            /\ game'.WinningExploration = game.WinningExploration]_vars

\* The goal was found and a later move of another name to the Goal was
\* refused.
C36_Witness ==
    /\ game.GoalFound
    /\ IsMove(lastOp)
    /\ lastOp.pos = game.Goal
    /\ lastOp.name # game.WinningExploration
    /\ ~resp.Success

(***************************************************************************)
(* C37.  Every exploration with IsActive set has at least one available    *)
(* move from its current position: an exploration with none is marked      *)
(* dead (IsDead and IsComplete set, IsActive cleared).                     *)
(***************************************************************************)
C37_ActiveCanMove ==
    \A n \in DOMAIN game.Explorations :
        LET e == game.Explorations[n]
        IN  /\ e.IsActive => FreeNeighbours(game, e.CurrentPosition) > 0
            /\ FreeNeighbours(game, e.CurrentPosition) = 0 /\ ~e.FoundGoal =>
                    e.IsDead /\ e.IsComplete /\ ~e.IsActive

(***************************************************************************)
(* C38.  In every state reached by moves and resets from a freshly         *)
(* generated game, every exploration has no parent, no child ids and       *)
(* generation 0; no exploration has children, and the classifier gives     *)
(* each exploration the winner class, the dead class or the class of its   *)
(* own colour index.                                                       *)
(***************************************************************************)
\* The class of an exploration without children.
LeafClass(e) ==
    IF e.FoundGoal THEN WinnerClass
    ELSE IF e.IsDead THEN DeadClass
    ELSE OwnClass(e)

C38_NoParents ==
    \A n \in DOMAIN game.Explorations :
        LET e == game.Explorations[n]
        IN  /\ e.ParentID = Nil
            /\ e.ChildIDs = << >>
            /\ e.Generation = 0
            /\ Children(game, e.ID) = {}
            /\ \A order \in {<<"root", "a">>, <<"a", "root">>} :
                  getExplorationDisplayColorAndStyle(game, n, order).resp = LeafClass(e)

\* Two explorations exist, one of them dead, and both are classified.
C38_Witness ==
    /\ DOMAIN game.Explorations = {"root", "a"}
    /\ \E n \in DOMAIN game.Explorations : game.Explorations[n].IsDead
    /\ \E n \in DOMAIN game.Explorations : ~game.Explorations[n].IsComplete

(***************************************************************************)
(* C39.  In every reachable state and for every exploration, IsActive is   *)
(* the negation of IsComplete, and IsComplete holds exactly when IsDead or *)
(* FoundGoal holds.                                                        *)
(***************************************************************************)
C39_FlagsAgree ==
    \A n \in DOMAIN game.Explorations :
        LET e == game.Explorations[n]
        IN  /\ e.IsActive = ~e.IsComplete
            /\ e.IsComplete = (e.IsDead \/ e.FoundGoal)

\* One exploration is dead, and one found the goal.
C39_Witness ==
    /\ \E n \in DOMAIN game.Explorations :
          game.Explorations[n].IsDead /\ ~game.Explorations[n].IsActive
    /\ \E n \in DOMAIN game.Explorations :
          game.Explorations[n].FoundGoal /\ game.Explorations[n].IsComplete

(***************************************************************************)
(* C40.  Whenever generateMaze completes for a width and a height of at    *)
(* least 5, the Goal is the cell (width - 2, height - 2) of the grid it    *)
(* made, whatever the random choices were.                                 *)
(***************************************************************************)
C40_GoalIsFarCorner ==
    Generated /\ game.Width >= 5 /\ game.Height >= 5 =>
        /\ game.Goal = Pos(game.Width - 2, game.Height - 2)
        /\ CellsOf(game, GOAL) = {Pos(game.Width - 2, game.Height - 2)}

\* A grid of at least 7x7, with loops opened, was completed.
C40_Witness ==
    /\ Generated
    /\ game.Width >= 7 /\ game.Height >= 7
    /\ Len(gen.popped) >= 9

====
